---- MODULE Spec2Model ----
(***************************************************************************)
(* Indicators (src/indicators.py), signal engine (src/signals.py, and its  *)
(* twin in src/ui.py), backtest simulator and summary (src/backtest.py)    *)
(* and the signal-change e-mail (src/ui.py, src/email_notifier.py) of      *)
(* crypto-tv-v6, as state machines over bounded inputs.                    *)
(*                                                                         *)
(* Prices and indicator values are integers; every float threshold of the  *)
(* code (0.45, 0.06, 0.995, ...) is compared after multiplying both sides  *)
(* by its denominator, so the comparisons are exact.  NaN is the value     *)
(* NaN below and every ordered comparison with it is FALSE, as in IEEE.    *)
(* Bars are numbered from 0 as in the code; sequence position is bar + 1.  *)
(***************************************************************************)
EXTENDS Integers, Sequences, FiniteSets, TLC

VARIABLES
    \* ---- compute_signals(df) ----
    sig_pc,        \* "start" | "loop" | "done"
    sig_df,        \* the IndicatorFrame sequence passed in
    sig_i,         \* loop variable i of `for i in range(len(df))`
    signals,       \* list `signals`
    reasons,       \* list `reasons`
    last_sig,      \* `last_sig`, the last actionable raw decision
    sig_ret,       \* the returned columns: sequence of [signal, signal_reason]
    caller_df,     \* the frame object the caller passed, as the caller sees it
    sig_aliased,   \* local `df` is still the caller's object (no copy made yet)
    \* ---- compute_backtest_trades(df, max_hold_bars) ----
    pc,            \* "start" | "loop" | "done" | "raised"
    df,            \* the signal-annotated sequence passed in
    max_hold_bars, \* parameter max_hold_bars
    i,             \* loop variable i of `for i, sig in enumerate(signals)`
    in_pos,
    entry_price,
    entry_idx,
    entry_sig,
    entry_pos,
    entry_atr,
    rows,          \* list `rows`, the trades; returned as pd.DataFrame(rows)
    \* ---- summarize_backtest(df_bt) on the trades returned ----
    stats,         \* <<>>, then <<the summary dict returned>>
    \* ---- one pass of the loop body of compute_signals, at any bar i >= 1 ----
    one_bar,       \* [last, prev, last_sig]: df.iloc[i], df.iloc[i - 1], last_sig
    one_out,       \* <<>>, then <<what signals.py appends for the bar, next last_sig>>
    ui_out,        \* the same for the compute_signals of ui.py
    \* ---- latest_signal(df) ----
    lat_df,        \* the record sequence passed in
    lat_ret,       \* <<>>, then <<what latest_signal of signals.py returns>>
    ui_lat_ret,    \* the same for latest_signal of ui.py
    \* ---- the refreshes of the app: compute_signals, then the backtest ----
    cyc_phase,     \* "off" | "signals" | "backtest" | "idle"
    cyc_queue,     \* the frame sequences of the refreshes still to come
    cyc_hist,      \* what each finished refresh was given and got back
    \* ---- compute_rsi(series) ----
    rsi_series,    \* the close series passed in
    rsi_ret,       \* <<>>, then <<the rsi series returned>>
    \* ---- compute_indicators(df) ----
    ind_df,        \* the candle sequence passed in
    ind_ret,       \* <<>>, then <<the frame sequence returned>>
    \* ---- the signal-change e-mail of a refresh (ui.py lines 850-896) ----
    session_state, \* st.session_state: a dict, with the key last_signal_... or without it
    ntf_queue,     \* the refreshes still to come: what each one finds
    ntf_log        \* what each finished refresh saw and did

sig_vars == <<sig_pc, sig_df, sig_i, signals, reasons, last_sig, sig_ret,
              caller_df, sig_aliased>>
bt_vars == <<pc, df, max_hold_bars, i, in_pos, entry_price, entry_idx,
             entry_sig, entry_pos, entry_atr, rows>>
sum_vars == <<stats>>
one_vars == <<one_bar, one_out, ui_out>>
lat_vars == <<lat_df, lat_ret, ui_lat_ret>>
cyc_vars == <<cyc_phase, cyc_queue, cyc_hist>>
rsi_vars == <<rsi_series, rsi_ret>>
ind_vars == <<ind_df, ind_ret>>
ntf_vars == <<session_state, ntf_queue, ntf_log>>
vars == <<sig_vars, bt_vars, sum_vars, one_vars, lat_vars, cyc_vars,
         rsi_vars,
         ind_vars,
         ntf_vars>>

\* ------------------------------------------------------------------ bounds
\* Longest frame sequence given to compute_signals.
MaxFrames == 4
\* Longest bar sequence given to compute_backtest_trades.
MaxBars == 3
\* Largest max_hold_bars tried (0 disables the time-stop: `if ... and max_hold_bars and`).
MaxHold == 3

\* Longest frame sequence of a refresh, and of the refresh in between two
\* refreshes on the same frames; largest max_hold_bars of the refreshes.
MaxCycleFrames == 3
MaxBetween == 2
MaxCycleHold == 1

\* Longest frame sequence given to the compute_signals of ui.py.
MaxUiFrames == 3

\* Longest close series given to compute_rsi.
MaxRsiBars == 4

\* Longest candle sequence given to compute_indicators: past the ma200 warm-up.
MaxCandles == 201

\* Most refreshes of one (market, symbol, timeframe) key in a row.
MaxRefreshes == 3

\* ------------------------------------------------------------- value model
NaN == -1
None == -2

isna(x) == x = NaN

\* Ordered comparisons of floats: FALSE as soon as one side is NaN.
Lt(a, b) == ~isna(a) /\ ~isna(b) /\ a < b
Le(a, b) == ~isna(a) /\ ~isna(b) /\ a <= b
Gt(a, b) == Lt(b, a)
Ge(a, b) == Le(b, a)

\* max(a, b) of Python: b when b > a, else a (so a NaN a stays).
Max2(a, b) == IF Gt(b, a) THEN b ELSE a

ACTIONABLE == {"STRONG BUY", "BUY", "SELL", "STRONG SELL"}
BUY_SIGNALS == {"BUY", "STRONG BUY"}
SELL_SIGNALS == {"SELL", "STRONG SELL"}
ALL_SIGNALS == ACTIONABLE \cup {"HOLD", "NO DATA"}

\* ka*a < kb*b on floats a, b (ka, kb > 0 the integer scales of a float factor).
MulLt(ka, a, kb, b) == ~isna(a) /\ ~isna(b) /\ ka * a < kb * b
MulLe(ka, a, kb, b) == ~isna(a) /\ ~isna(b) /\ ka * a <= kb * b

\* ---------------------------------------------------- signals.py: one candle
\* vol = (bb_up - bb_lo) / bb_mid if bb_mid else 0;  is_low_vol = vol < 0.06
is_low_vol(last) ==
    IF isna(last.bb_mid) \/ isna(last.bb_up) \/ isna(last.bb_lo) THEN FALSE
    ELSE IF last.bb_mid = 0 THEN TRUE
    ELSE IF last.bb_mid > 0 THEN 100 * (last.bb_up - last.bb_lo) < 6 * last.bb_mid
    ELSE 100 * (last.bb_up - last.bb_lo) > 6 * last.bb_mid

\* is_high_vol = vol > 0.12
is_high_vol(last) ==
    IF isna(last.bb_mid) \/ isna(last.bb_up) \/ isna(last.bb_lo) THEN FALSE
    ELSE IF last.bb_mid = 0 THEN FALSE
    ELSE IF last.bb_mid > 0 THEN 100 * (last.bb_up - last.bb_lo) > 12 * last.bb_mid
    ELSE 100 * (last.bb_up - last.bb_lo) < 12 * last.bb_mid

candle_range(last) == last.high - last.low
upper_wick(last) == last.high - Max2(last.close, last.open)

blowoff(last, prev) ==
    /\ candle_range(last) > 0
    /\ 100 * upper_wick(last) > 45 * candle_range(last)
    /\ Lt(last.close, prev.close)
    /\ Gt(last.close, last.bb_up)
    /\ Gt(last.rsi14, 73)

deep_dip(last, prev) ==
    /\ Le(last.close, last.bb_lo)
    /\ Lt(last.rsi14, 35)
    /\ Gt(last.rsi14, prev.rsi14)

buy_price_cond(last) ==
    \/ IF is_high_vol(last) THEN MulLe(100, last.close, 101, last.bb_lo)
                            ELSE Le(last.close, last.bb_lo)
    \/ MulLe(100, last.close, 96, last.ema50)

buy_rsi_cond(last, prev) ==
    /\ Lt(30, last.rsi14)
    /\ Le(last.rsi14, 48)
    /\ Gt(last.rsi14, prev.rsi14)

strong_sell_cond(last, prev) ==
    /\ MulLt(112, last.ema50, 100, last.close)
    /\ Gt(last.close, last.bb_up)
    /\ Gt(last.rsi14, 80)
    /\ Lt(last.rsi14, prev.rsi14)

sell_cond(last, prev) ==
    /\ Gt(last.close, last.bb_up)
    /\ Gt(last.rsi14, 72)
    /\ Lt(last.rsi14, prev.rsi14)

\* Mutant of _signal_core_with_reason: the test isna(ma200) is missing.
_signal_core_with_reason_NoMa200Test(last, prev) ==
    IF Lt(last.close, last.ma200)
    THEN <<"HOLD", "Preis unter MA200 - System handelt nur Long im Bullenmarkt.">>
    ELSE IF blowoff(last, prev)
    THEN <<"STRONG SELL", "Blow-Off-Top: grosser oberer Docht, Close ueber BB-Upper, RSI > 73 und Umkehrkerze.">>
    ELSE IF deep_dip(last, prev)
    THEN IF is_low_vol(last) /\ MulLt(1000, last.close, 995, last.bb_lo)
         THEN <<"STRONG BUY", "Tiefer Dip + sehr geringe Volatilitaet -> starker Mean-Reversion Einstieg.">>
         ELSE <<"STRONG BUY", "Tiefer Dip: Preis am unteren Bollinger-Band, RSI < 35 und dreht hoch.">>
    ELSE IF buy_price_cond(last) /\ buy_rsi_cond(last, prev)
    THEN <<"BUY", "Gesunder Pullback: Naehe BB-Lo oder <EMA50, RSI 30-48 und dreht hoch.">>
    ELSE IF strong_sell_cond(last, prev)
    THEN <<"STRONG SELL", "Extreme Ueberhitzung: Preis >> EMA50 & BB-Upper, RSI > 80 und faellt.">>
    ELSE IF sell_cond(last, prev)
    THEN <<"SELL", "Uebertreibung: Preis ueber BB-Upper, RSI > 72 und dreht nach unten.">>
    ELSE <<"HOLD", "Neutral - weder Uebertreibung noch Dip erkannt.">>

\* Mutant of _signal_core_with_reason: the test close < ma200 is missing.
_signal_core_with_reason_NoBullFilter(last, prev) ==
    IF isna(last.ma200)
    THEN <<"HOLD", "MA200 nicht verfuegbar - zu wenig Historie fuer Trendfilter.">>
    ELSE IF blowoff(last, prev)
    THEN <<"STRONG SELL", "Blow-Off-Top: grosser oberer Docht, Close ueber BB-Upper, RSI > 73 und Umkehrkerze.">>
    ELSE IF deep_dip(last, prev)
    THEN IF is_low_vol(last) /\ MulLt(1000, last.close, 995, last.bb_lo)
         THEN <<"STRONG BUY", "Tiefer Dip + sehr geringe Volatilitaet -> starker Mean-Reversion Einstieg.">>
         ELSE <<"STRONG BUY", "Tiefer Dip: Preis am unteren Bollinger-Band, RSI < 35 und dreht hoch.">>
    ELSE IF buy_price_cond(last) /\ buy_rsi_cond(last, prev)
    THEN <<"BUY", "Gesunder Pullback: Naehe BB-Lo oder <EMA50, RSI 30-48 und dreht hoch.">>
    ELSE IF strong_sell_cond(last, prev)
    THEN <<"STRONG SELL", "Extreme Ueberhitzung: Preis >> EMA50 & BB-Upper, RSI > 80 und faellt.">>
    ELSE IF sell_cond(last, prev)
    THEN <<"SELL", "Uebertreibung: Preis ueber BB-Upper, RSI > 72 und dreht nach unten.">>
    ELSE <<"HOLD", "Neutral - weder Uebertreibung noch Dip erkannt.">>

\* Mutant of _signal_core_with_reason: the pullback is tested before the deep
\* dip, and the overheat before the extreme overheat.
_signal_core_with_reason_WeakFirst(last, prev) ==
    IF isna(last.ma200)
    THEN <<"HOLD", "MA200 nicht verfuegbar - zu wenig Historie fuer Trendfilter.">>
    ELSE IF Lt(last.close, last.ma200)
    THEN <<"HOLD", "Preis unter MA200 - System handelt nur Long im Bullenmarkt.">>
    ELSE IF blowoff(last, prev)
    THEN <<"STRONG SELL", "Blow-Off-Top: grosser oberer Docht, Close ueber BB-Upper, RSI > 73 und Umkehrkerze.">>
    ELSE IF buy_price_cond(last) /\ buy_rsi_cond(last, prev)
    THEN <<"BUY", "Gesunder Pullback: Naehe BB-Lo oder <EMA50, RSI 30-48 und dreht hoch.">>
    ELSE IF deep_dip(last, prev)
    THEN IF is_low_vol(last) /\ MulLt(1000, last.close, 995, last.bb_lo)
         THEN <<"STRONG BUY", "Tiefer Dip + sehr geringe Volatilitaet -> starker Mean-Reversion Einstieg.">>
         ELSE <<"STRONG BUY", "Tiefer Dip: Preis am unteren Bollinger-Band, RSI < 35 und dreht hoch.">>
    ELSE IF sell_cond(last, prev)
    THEN <<"SELL", "Uebertreibung: Preis ueber BB-Upper, RSI > 72 und dreht nach unten.">>
    ELSE IF strong_sell_cond(last, prev)
    THEN <<"STRONG SELL", "Extreme Ueberhitzung: Preis >> EMA50 & BB-Upper, RSI > 80 und faellt.">>
    ELSE <<"HOLD", "Neutral - weder Uebertreibung noch Dip erkannt.">>

\* (signal, reason) of one candle pair; the reasons are the code's texts in ASCII.
_signal_core_with_reason(last, prev) ==
    IF isna(last.ma200)
    THEN <<"HOLD", "MA200 nicht verfuegbar - zu wenig Historie fuer Trendfilter.">>
    ELSE IF Lt(last.close, last.ma200)
    THEN <<"HOLD", "Preis unter MA200 - System handelt nur Long im Bullenmarkt.">>
    ELSE IF blowoff(last, prev)
    THEN <<"STRONG SELL", "Blow-Off-Top: grosser oberer Docht, Close ueber BB-Upper, RSI > 73 und Umkehrkerze.">>
    ELSE IF deep_dip(last, prev)
    THEN IF is_low_vol(last) /\ MulLt(1000, last.close, 995, last.bb_lo)
         THEN <<"STRONG BUY", "Tiefer Dip + sehr geringe Volatilitaet -> starker Mean-Reversion Einstieg.">>
         ELSE <<"STRONG BUY", "Tiefer Dip: Preis am unteren Bollinger-Band, RSI < 35 und dreht hoch.">>
    ELSE IF buy_price_cond(last) /\ buy_rsi_cond(last, prev)
    THEN <<"BUY", "Gesunder Pullback: Naehe BB-Lo oder <EMA50, RSI 30-48 und dreht hoch.">>
    ELSE IF strong_sell_cond(last, prev)
    THEN <<"STRONG SELL", "Extreme Ueberhitzung: Preis >> EMA50 & BB-Upper, RSI > 80 und faellt.">>
    ELSE IF sell_cond(last, prev)
    THEN <<"SELL", "Uebertreibung: Preis ueber BB-Upper, RSI > 72 und dreht nach unten.">>
    ELSE <<"HOLD", "Neutral - weder Uebertreibung noch Dip erkannt.">>

signal_with_reason(last, prev) == _signal_core_with_reason(last, prev)

\* --------------------------------------------------------- ui.py: one candle
\* last.get("adx14", np.nan) and the like: NaN when the column is missing.
Get(rec, col) == IF col \in DOMAIN rec THEN rec[col] ELSE NaN

\* ema20 > ema50 > ma200
trend_ok(last) == Gt(last.ema20, last.ema50) /\ Gt(last.ema50, last.ma200)

\* Setup 1, ui.py lines 488-489.
dip_zone(last) ==
    /\ MulLe(1000, last.close, 1025, last.ema20)
    /\ MulLe(95, last.ema50, 100, last.close)

dip_rsi(last, prev) ==
    /\ Le(38, last.rsi14)
    /\ Le(last.rsi14, 56)
    /\ Gt(last.rsi14, prev.rsi14)

\* Setup 2, ui.py lines 497-500; rvol20 is held in hundredths.
recent_high(last, prev) == Max2(prev.high, last.high)

breakout_price(last, prev) ==
    /\ Gt(last.close, recent_high(last, prev))
    /\ Gt(last.close, last.ema20)

breakout_rsi(last, prev) ==
    /\ Le(50, last.rsi14)
    /\ Le(last.rsi14, 65)
    /\ Ge(last.rsi14, prev.rsi14)

breakout_vol(last) == isna(Get(last, "rvol20")) \/ Ge(Get(last, "rvol20"), 105)

\* Setup 3, ui.py line 508.
reclaim(last, prev) ==
    /\ Lt(prev.close, last.ema50)
    /\ Gt(last.close, last.ema50)
    /\ Gt(last.rsi14, prev.rsi14)
    /\ Ge(last.rsi14, 46)

\* ui.py lines 516-517 and 530.
overheat(last, prev) ==
    /\ Gt(last.close, last.bb_up)
    /\ Gt(last.rsi14, 72)
    /\ Lt(last.rsi14, prev.rsi14)

strong_overheat(last, prev) ==
    /\ MulLt(11, last.ema20, 10, last.close)
    /\ Gt(last.rsi14, 80)
    /\ Lt(last.rsi14, prev.rsi14)

trend_break(last, prev) ==
    /\ Lt(last.close, last.ema50)
    /\ Lt(last.rsi14, 50)
    /\ Lt(last.rsi14, prev.rsi14)

\* atr_pct > 9 with atr_pct = atr14 / close * 100 if close else nan
atr_pct_high(last) ==
    /\ last.close # 0
    /\ ~isna(last.close)
    /\ ~isna(Get(last, "atr14"))
    /\ IF last.close > 0 THEN 100 * Get(last, "atr14") > 9 * last.close
                         ELSE 100 * Get(last, "atr14") < 9 * last.close

\* _signal_core_with_reason of ui.py (lines 446-538), reasons in ASCII.
ui_signal_core_with_reason(last, prev) ==
    IF isna(last.ma200)
    THEN <<"HOLD", "MA200 nicht verfuegbar - kein Regime.">>
    ELSE IF Lt(last.close, last.ma200)
    THEN <<"HOLD", "Unter MA200 - kein Long-Regime.">>
    ELSE IF Lt(Get(last, "adx14"), 20)
    THEN <<"HOLD", "Trend zu schwach (ADX < 20).">>
    ELSE IF Lt(Get(last, "rvol20"), 90)
    THEN <<"HOLD", "Volumen zu duenn (RVOL < 0.9).">>
    ELSE IF atr_pct_high(last)
    THEN <<"HOLD", "Volatilitaet zu hoch (>9% ATR/Close).">>
    ELSE IF trend_ok(last) /\ dip_zone(last) /\ dip_rsi(last, prev)
    THEN <<"BUY", "Trend-Dip: Ueber MA200, EMA20>EMA50; Pullback zur Value-Zone (EMA20/EMA50) mit RSI-Rebound.">>
    ELSE IF trend_ok(last) /\ breakout_price(last, prev) /\ breakout_rsi(last, prev)
              /\ breakout_vol(last)
    THEN <<"BUY", "Trend-Breakout: Ueber MA200/EMA20/EMA50 mit neuem Hoch, RSI 50-65 steigend und Volumen-Expansion.">>
    ELSE IF trend_ok(last) /\ reclaim(last, prev)
    THEN <<"BUY", "Reclaim EMA50 nach Flush: Trend bleibt intakt, RSI dreht hoch - kleiner Re-Entry moeglich.">>
    ELSE IF strong_overheat(last, prev)
    THEN <<"STRONG SELL", "Extreme Ueberhitzung: Kurs > 1.1x EMA20, RSI > 80 und dreht - Risiko auf Abverkauf.">>
    ELSE IF overheat(last, prev)
    THEN <<"SELL", "Ueberhitzung: Kurs ueber oberem BB, RSI > 72 und faellt - Gewinnmitnahme/De-Risk.">>
    ELSE IF trend_break(last, prev)
    THEN <<"SELL", "Trendbruch: Close < EMA50 und RSI < 50 fallend - Longs vorsichtig reduzieren.">>
    ELSE <<"HOLD", "Kein Setup: Trend-Filter passt, aber weder Dip noch Breakout bestaetigt.">>

ui_signal_with_reason(last, prev) == ui_signal_core_with_reason(last, prev)

\* --------------------------------------------- signals.py: compute_signals
\* Mutant of RawAt: the decision of bar b reads the bar after it when there is one.
RawAt_Lookahead(d, b) ==
    IF b + 2 <= Len(d) THEN signal_with_reason(d[b + 2], d[b + 1])
    ELSE signal_with_reason(d[b + 1], d[b])

\* The raw decision of bar b >= 1 of frame sequence d: df.iloc[b], df.iloc[b - 1].
RawAt(d, b) == signal_with_reason(d[b + 1], d[b])

\* f"Signal '{sig_raw}' haelt an."
HoldsReason(sig_raw) == "Signal '" \o sig_raw \o "' haelt an."

\* Mutant of TransitionFilter: a repeated decision is displayed again.
TransitionFilter_NoSuppress(raw, last) ==
    [signal |-> raw[1], reason |-> raw[2],
     last_sig |-> IF raw[1] \in ACTIONABLE THEN raw[1] ELSE last]

\* Mutant of TransitionFilter: last_sig follows every raw decision, HOLD included.
TransitionFilter_TrackHold(raw, last) ==
    IF raw[1] = last
    THEN [signal |-> "HOLD", reason |-> HoldsReason(raw[1]), last_sig |-> last]
    ELSE [signal |-> raw[1], reason |-> raw[2], last_sig |-> raw[1]]

\* Lines 205-212: what one bar appends to signals / reasons and the next last_sig,
\* from the raw decision and the running last_sig.
TransitionFilter(raw, last) ==
    IF raw[1] = last
    THEN [signal |-> "HOLD", reason |-> HoldsReason(raw[1]), last_sig |-> last]
    ELSE [signal |-> raw[1], reason |-> raw[2],
          last_sig |-> IF raw[1] \in ACTIONABLE THEN raw[1] ELSE last]

\* The same filter as ui.py writes it (ui.py lines 569-580): the display is chosen
\* first, then last_sig is set whenever the raw decision is actionable.
UiTransitionFilter(raw, last) ==
    LET disp == IF raw[1] = last
                THEN <<"HOLD", "Signal '" \o raw[1] \o "' besteht weiter - kein neues Signal generiert.">>
                ELSE <<raw[1], raw[2]>>
    IN [signal |-> disp[1], reason |-> disp[2],
        last_sig |-> IF raw[1] \in ACTIONABLE THEN raw[1] ELSE last]

\* Lines 196-212: one pass of the loop body for bar b, on the loop state
\* st = [signals, reasons, last_sig].
SigLoopBody(d, b, st) ==
    IF b = 0
    THEN [signals |-> Append(st.signals, "NO DATA"),
          reasons |-> Append(st.reasons, "Erste Kerze - keine Historie."),
          last_sig |-> st.last_sig]
    ELSE LET t == TransitionFilter(RawAt(d, b), st.last_sig)
         IN [signals |-> Append(st.signals, t.signal),
             reasons |-> Append(st.reasons, t.reason),
             last_sig |-> t.last_sig]

\* Mutant of SigLoopInit: last_sig is module state that outlives the call.
SigLoopInit_KeepLastSig == [signals |-> <<>>, reasons |-> <<>>, last_sig |-> last_sig]

\* Lines 192-194.
SigLoopInit == [signals |-> <<>>, reasons |-> <<>>, last_sig |-> "NO DATA"]

\* The loop state after bars 0 .. n-1.
RECURSIVE SigLoop(_, _)
SigLoop(d, n) ==
    IF n = 0 THEN SigLoopInit ELSE SigLoopBody(d, n - 1, SigLoop(d, n - 1))

\* Lines 214-216: the two columns set on the copy and returned.
SigColumns(sigs, reas) ==
    [k \in 1..Len(sigs) |-> [signal |-> sigs[k], signal_reason |-> reas[k]]]

\* Lines 184-188: fewer than two frames.
SigShortResult(d) ==
    [k \in 1..Len(d) |-> [signal |-> "NO DATA", signal_reason |-> "Nicht genug Daten."]]

\* compute_signals as a function of its input.
compute_signals(d) ==
    IF Len(d) < 2 THEN SigShortResult(d)
    ELSE LET st == SigLoop(d, Len(d)) IN SigColumns(st.signals, st.reasons)


\* ----------------------------------------------------- inputs: the frames
Frame(o, h, l, c, e50, m200, rsi, up, lo, mid) ==
    [open |-> o, high |-> h, low |-> l, close |-> c, ema50 |-> e50,
     ma200 |-> m200, rsi14 |-> rsi, bb_up |-> up, bb_lo |-> lo, bb_mid |-> mid]

\* Indicator frames that between them drive every rule of the decision list,
\* and each actionable decision twice in a row (rsi rising 20 < 25 < 30 < 40 < 45,
\* falling 90 > 85 > 75 > 74 > 73).
FrameSet ==
    { Frame(100, 100, 100, 100, 100, NaN, 50, NaN, NaN, NaN),  \* warm-up, no ma200
      Frame( 80,  80,  80,  80, 100, 100, 20, 110,  90, 100),  \* below ma200
      Frame( 90,  90,  90,  90, 100,  85, 25, 110,  90, 100),  \* at bb_lo, rsi 25
      Frame( 90,  90,  90,  90, 100,  85, 30, 110,  90, 100),  \* at bb_lo, rsi 30
      Frame( 97,  97,  97,  97, 100,  85, 32, 102,  98, 100),  \* narrow bands, below bb_lo
      Frame( 90,  90,  90,  90, 100,  85, 40, 110,  90, 100),  \* at bb_lo, rsi 40
      Frame( 90,  90,  90,  90, 100,  85, 45, 110,  90, 100),  \* at bb_lo, rsi 45
      Frame(125, 125, 120, 125, 100,  85, 90, 110,  90, 100),  \* top, rsi 90
      Frame(118, 120, 118, 120, 100,  85, 85, 110,  90, 100),  \* far above ema50, rsi 85
      Frame(112, 130, 110, 115, 100,  85, 75, 110,  90, 100),  \* long upper wick, rsi 75
      Frame(111, 111, 111, 111, 100,  85, 74, 110,  90, 100),  \* above bb_up, rsi 74
      Frame(111, 111, 111, 111, 100,  85, 73, 110,  90, 100) } \* above bb_up, rsi 73

SeqsUpTo(S, n) == UNION {[1..k -> S] : k \in 0..n}

\* ------------------------------------------- compute_signals, step by step
\* The frame compute_signals returns: its frames with the two columns.
ReturnedFrame(d, cols) == [k \in 1..Len(d) |-> cols[k] @@ d[k]]

\* df = df.copy() (signals.py lines 185 and 190): whatever df was, it is now
\* an object of its own.
AfterCopy(aliased) == FALSE

\* df["signal"] = ...; df["signal_reason"] = ...: the caller's object gets the
\* columns when df is that object, and is left alone when df is a copy.
Assigned(aliased, caller, cols) ==
    IF aliased THEN ReturnedFrame(caller, cols) ELSE caller

SigInit ==
    /\ sig_pc = "start"
    /\ sig_df \in SeqsUpTo(FrameSet, MaxFrames)
    /\ sig_i = 0
    /\ signals = <<>>
    /\ reasons = <<>>
    /\ last_sig = "NO DATA"
    /\ sig_ret = <<>>
    /\ caller_df = sig_df
    /\ sig_aliased = TRUE
    \* compute_backtest_trades is not running
    /\ pc = "done"
    /\ df = <<>>
    /\ max_hold_bars = 0
    /\ i = 0
    /\ in_pos = FALSE
    /\ entry_price = None
    /\ entry_idx = None
    /\ entry_sig = None
    /\ entry_pos = None
    /\ entry_atr = None
    /\ rows = <<>>
    /\ stats = <<>>
    \* no single bar is being looked at
    /\ one_bar = None
    /\ one_out = <<>>
    /\ ui_out = <<>>
    \* latest_signal is not running
    /\ lat_df = <<>>
    /\ lat_ret = <<>>
    /\ ui_lat_ret = <<>>
    \* a single call, not a run of refreshes
    /\ cyc_phase = "off"
    /\ cyc_queue = <<>>
    /\ cyc_hist = <<>>
    /\ rsi_series = <<>>
    /\ rsi_ret = <<>>
    /\ ind_df = <<>>
    /\ ind_ret = <<>>
    /\ session_state = <<>>
    /\ ntf_queue = <<>>
    /\ ntf_log = <<>>

\* if df.empty or len(df) < 2: ... return df
SigShort ==
    /\ sig_pc = "start"
    /\ Len(sig_df) < 2
    /\ sig_aliased' = AfterCopy(sig_aliased)
    /\ sig_ret' = SigShortResult(sig_df)
    /\ caller_df' = Assigned(sig_aliased', caller_df, sig_ret')
    /\ sig_pc' = "done"
    /\ UNCHANGED <<sig_df, sig_i, signals, reasons, last_sig>>

\* df = df.copy(); signals = []; reasons = []; last_sig = "NO DATA"
SigEnter ==
    /\ sig_pc = "start"
    /\ ~(Len(sig_df) < 2)
    /\ sig_aliased' = AfterCopy(sig_aliased)
    /\ signals' = SigLoopInit.signals
    /\ reasons' = SigLoopInit.reasons
    /\ last_sig' = SigLoopInit.last_sig
    /\ sig_i' = 0
    /\ sig_pc' = "loop"
    /\ UNCHANGED <<sig_df, sig_ret, caller_df>>

\* One pass of `for i in range(len(df))`.
SigBar ==
    /\ sig_pc = "loop"
    /\ sig_i < Len(sig_df)
    /\ LET st == SigLoopBody(sig_df, sig_i,
                   [signals |-> signals, reasons |-> reasons, last_sig |-> last_sig])
       IN /\ signals' = st.signals
          /\ reasons' = st.reasons
          /\ last_sig' = st.last_sig
    /\ sig_i' = sig_i + 1
    /\ UNCHANGED <<sig_pc, sig_df, sig_ret, caller_df, sig_aliased>>

\* df["signal"] = signals; df["signal_reason"] = reasons; return df
SigReturn ==
    /\ sig_pc = "loop"
    /\ sig_i = Len(sig_df)
    /\ sig_ret' = SigColumns(signals, reasons)
    /\ caller_df' = Assigned(sig_aliased, caller_df, sig_ret')
    /\ sig_pc' = "done"
    /\ UNCHANGED <<sig_df, sig_i, signals, reasons, last_sig, sig_aliased>>


\* ------------------------------------------- backtest.py: the simulator
\* tp_mult = 1.2 and atr_mult = 2.0 (the defaults, and what ui.py passes), in tenths.
TpMultTenths == 12
AtrMultTenths == 20

\* "signal" in df.columns: the frame has the column.
HasColumn(d, col) == Len(d) > 0 /\ col \in DOMAIN d[1]

\* Mutant of EarlyReturn: only the empty frame returns early.
EarlyReturn_EmptyOnly(d) == Len(d) = 0

\* Line 10: df.empty or "signal" not in df.columns or "close" not in df.columns
EarlyReturn(d) ==
    Len(d) = 0 \/ ~HasColumn(d, "signal") \/ ~HasColumn(d, "close")

\* atrs[b]: the atr14 column, or np.full(len(df), np.nan) without it (line 19).
atrs(d, b) == IF HasColumn(d, "atr14") THEN d[b + 1].atr14 ELSE NaN

\* idx[b]: the frame index is sorted (sort_index in the data loaders), so the
\* timestamp of bar b is b itself up to an order isomorphism.
idx(d, b) == b

\* Mutant of LoopBranch: the entry test without `not in_pos`.
LoopBranch_Reenter(inpos, sig, age, mh) ==
    IF sig \in BUY_SIGNALS THEN "entry"
    ELSE IF inpos /\ sig \in SELL_SIGNALS THEN "exit"
    ELSE IF inpos /\ mh # 0 /\ age >= mh THEN "time_stop"
    ELSE "none"

\* Mutant of LoopBranch: any actionable signal opens a position while flat.
LoopBranch_EnterOnAny(inpos, sig, age, mh) ==
    IF ~inpos /\ sig \in ACTIONABLE THEN "entry"
    ELSE IF inpos /\ sig \in SELL_SIGNALS THEN "exit"
    ELSE IF inpos /\ mh # 0 /\ age >= mh THEN "time_stop"
    ELSE "none"

\* Mutant of LoopBranch: the time-stop is tested before the reverse signal.
LoopBranch_TimeStopFirst(inpos, sig, age, mh) ==
    IF ~inpos /\ sig \in BUY_SIGNALS THEN "entry"
    ELSE IF inpos /\ mh # 0 /\ age >= mh THEN "time_stop"
    ELSE IF inpos /\ sig \in SELL_SIGNALS THEN "exit"
    ELSE "none"

\* Mutant of LoopBranch: the time-stop fires one bar late (> for >=).
LoopBranch_StrictAge(inpos, sig, age, mh) ==
    IF ~inpos /\ sig \in BUY_SIGNALS THEN "entry"
    ELSE IF inpos /\ sig \in SELL_SIGNALS THEN "exit"
    ELSE IF inpos /\ mh # 0 /\ age > mh THEN "time_stop"
    ELSE "none"

\* The three tests of the loop body in the order the code makes them (lines 31,
\* 41, 76): which branch bar `sig` takes for a position of age `age`.
LoopBranch(inpos, sig, age, mh) ==
    IF ~inpos /\ sig \in BUY_SIGNALS THEN "entry"
    ELSE IF inpos /\ sig \in SELL_SIGNALS THEN "exit"
    ELSE IF inpos /\ mh # 0 /\ age >= mh THEN "time_stop"
    ELSE "none"

\* Mutant of InPosAfter: the time-stop forgets `in_pos = False`.
InPosAfter_StopKeeps(branch, inpos) ==
    IF branch = "entry" THEN TRUE
    ELSE IF branch = "exit" THEN FALSE
    ELSE inpos

\* in_pos after a bar that took `branch` (lines 37, 72, 105).
InPosAfter(branch, inpos) ==
    IF branch = "entry" THEN TRUE
    ELSE IF branch \in {"exit", "time_stop"} THEN FALSE
    ELSE inpos

\* Mutant of NextBar: after the time-stop the tests are made again on the bar.
NextBar_RetestAfterStop(branch, b) == IF branch = "time_stop" THEN b ELSE b + 1

\* The bar looked at after bar b took `branch`: `continue` after an entry or an
\* exit (lines 38, 73), the end of the loop body after the time-stop block or
\* when no test matched; every bar takes one branch.
NextBar(branch, b) == b + 1

\* risk_abs = entry_atr * atr_mult if entry_atr and not isnan(entry_atr)
\*            else entry_price * 0.02, times 100.
risk_abs100(eprice, eatr) ==
    IF eatr # 0 /\ ~isna(eatr) THEN eatr * AtrMultTenths * 10 ELSE eprice * 2

\* tp_level = entry_price + risk_abs * tp_mult, times 1000.
tp_level1000(eprice, eatr) == eprice * 1000 + risk_abs100(eprice, eatr) * TpMultTenths

\* Mutant of hit_tp: the exit bar itself is not looked at.
hit_tp_BeforeExit(d, epos, last, eprice, eatr) ==
    \E j \in epos..(last - 1) : d[j + 1].close * 1000 >= tp_level1000(eprice, eatr)

\* hit_tp = any(closes[j] >= tp_level for j in range(entry_pos, last + 1))
hit_tp(d, epos, last, eprice, eatr) ==
    \E j \in epos..last : d[j + 1].close * 1000 >= tp_level1000(eprice, eatr)

\* Mutant of ret2000: the profit without the partial take-profit.
ret2000_Plain(d, epos, last, eprice, eatr, xprice) == (xprice - eprice) * 2000

\* The profit the trade reports (ret_final when hit_tp, ret_abs otherwise), times 2000.
ret2000(d, epos, last, eprice, eatr, xprice) ==
    IF hit_tp(d, epos, last, eprice, eatr)
    THEN (tp_level1000(eprice, eatr) - eprice * 1000) + (xprice - eprice) * 1000
    ELSE (xprice - eprice) * 2000

\* The row appended when the position is closed on bar `last` (lines 42-71,
\* 77-104, 109-136).  ret_pct and r_multiple are fractions <<numerator,
\* denominator>>; r_multiple is NaN when risk_abs is 0.
Trade(d, epos, eidx, esig, eprice, eatr, last, xsig, hold) ==
    LET xprice == d[last + 1].close
        r == ret2000(d, epos, last, eprice, eatr, xprice)
        risk == risk_abs100(eprice, eatr)
    IN [entry_time |-> eidx,
        exit_time |-> idx(d, last),
        signal |-> esig,
        exit_signal |-> xsig,
        entry_price |-> eprice,
        exit_price |-> xprice,
        ret_pct |-> <<r, eprice * 20>>,
        correct |-> (r > 0),
        hold_bars |-> hold,
        hold_time |-> idx(d, last) - eidx,
        r_multiple |-> IF risk # 0 THEN <<r, risk * 20>> ELSE <<NaN, 1>>]

\* ----------------------------------------------------- inputs: the bars
\* (close, atr14) of a bar: atr14 is NaN during its warm-up and 0 on a flat
\* stretch.  An entry at 100 has tp_level 102.4, one at 102 has 104.448, one at
\* 110 has 112.64.
PricePoints == {<<100, 1>>, <<102, 0>>, <<110, NaN>>}

BarSet ==
    {[signal |-> s, close |-> p[1], atr14 |-> p[2]] : s \in ALL_SIGNALS, p \in PricePoints}

\* Bars of frames that lack a column: atr14, close, signal.
NoAtrBarSet == {[signal |-> s, close |-> c] : s \in {"BUY", "HOLD", "SELL"}, c \in {100, 110}}
NoCloseBarSet == {[signal |-> s, atr14 |-> NaN] : s \in {"BUY", "HOLD", "SELL"}}
NoSignalBarSet == {[close |-> c, atr14 |-> NaN] : c \in {100, 110}}

\* Every frame compute_backtest_trades is given.
BtFrames ==
    SeqsUpTo(BarSet, MaxBars) \cup SeqsUpTo(NoAtrBarSet, MaxBars)
        \cup SeqsUpTo(NoCloseBarSet, MaxBars) \cup SeqsUpTo(NoSignalBarSet, MaxBars)

\* --------------------------------- compute_backtest_trades, step by step
BtInit ==
    /\ pc = "start"
    /\ df \in BtFrames
    /\ max_hold_bars \in 0..MaxHold
    /\ i = 0
    /\ in_pos = FALSE
    /\ entry_price = None
    /\ entry_idx = None
    /\ entry_sig = None
    /\ entry_pos = None
    /\ entry_atr = None
    /\ rows = <<>>
    /\ stats = <<>>
    \* compute_signals is not running
    /\ sig_pc = "done"
    /\ sig_df = <<>>
    /\ sig_i = 0
    /\ signals = <<>>
    /\ reasons = <<>>
    /\ last_sig = "NO DATA"
    /\ sig_ret = <<>>
    /\ caller_df = <<>>
    /\ sig_aliased = TRUE
    \* no single bar is being looked at
    /\ one_bar = None
    /\ one_out = <<>>
    /\ ui_out = <<>>
    \* latest_signal is not running
    /\ lat_df = <<>>
    /\ lat_ret = <<>>
    /\ ui_lat_ret = <<>>
    \* a single call, not a run of refreshes
    /\ cyc_phase = "off"
    /\ cyc_queue = <<>>
    /\ cyc_hist = <<>>
    /\ rsi_series = <<>>
    /\ rsi_ret = <<>>
    /\ ind_df = <<>>
    /\ ind_ret = <<>>
    /\ session_state = <<>>
    /\ ntf_queue = <<>>
    /\ ntf_log = <<>>

\* if df.empty ...: return pd.DataFrame(); what the call returns is held in rows.
BtEmpty ==
    /\ pc = "start"
    /\ EarlyReturn(df)
    /\ rows' = <<>>
    /\ pc' = "done"
    /\ UNCHANGED <<df, max_hold_bars, i, in_pos, entry_price, entry_idx,
                   entry_sig, entry_pos, entry_atr>>

\* rows = []; closes = df["close"].values; signals = df["signal"].values;
\* in_pos = False; entry_* = None.  Reading a column the frame does not have
\* raises KeyError.
BtEnter ==
    /\ pc = "start"
    /\ ~EarlyReturn(df)
    /\ rows' = <<>>
    /\ in_pos' = FALSE
    /\ entry_price' = None
    /\ entry_idx' = None
    /\ entry_sig' = None
    /\ entry_pos' = None
    /\ entry_atr' = None
    /\ i' = 0
    /\ pc' = IF HasColumn(df, "close") /\ HasColumn(df, "signal") THEN "loop" ELSE "raised"
    /\ UNCHANGED <<df, max_hold_bars>>

\* The branch bar i takes.
BranchNow ==
    LoopBranch(in_pos, df[i + 1].signal,
               IF in_pos THEN i - entry_pos ELSE 0, max_hold_bars)

\* Lines 31-38: open the position at this bar's close.
BtEntry ==
    /\ pc = "loop"
    /\ i < Len(df)
    /\ BranchNow = "entry"
    /\ entry_price' = df[i + 1].close
    /\ entry_idx' = idx(df, i)
    /\ entry_sig' = df[i + 1].signal
    /\ entry_pos' = i
    /\ entry_atr' = atrs(df, i)
    /\ in_pos' = InPosAfter("entry", in_pos)
    /\ i' = NextBar("entry", i)
    /\ UNCHANGED <<pc, df, max_hold_bars, rows>>

\* Lines 41-73: exit on the reverse signal.
BtExitSignal ==
    /\ pc = "loop"
    /\ i < Len(df)
    /\ BranchNow = "exit"
    /\ rows' = Append(rows, Trade(df, entry_pos, entry_idx, entry_sig, entry_price,
                                  entry_atr, i, df[i + 1].signal, i - entry_pos))
    /\ in_pos' = InPosAfter("exit", in_pos)
    /\ i' = NextBar("exit", i)
    /\ UNCHANGED <<pc, df, max_hold_bars, entry_price, entry_idx, entry_sig,
                   entry_pos, entry_atr>>

\* Lines 76-105: the time-stop.
BtTimeStop ==
    /\ pc = "loop"
    /\ i < Len(df)
    /\ BranchNow = "time_stop"
    /\ rows' = Append(rows, Trade(df, entry_pos, entry_idx, entry_sig, entry_price,
                                  entry_atr, i, "TIME_STOP", i - entry_pos))
    /\ in_pos' = InPosAfter("time_stop", in_pos)
    /\ i' = NextBar("time_stop", i)
    /\ UNCHANGED <<pc, df, max_hold_bars, entry_price, entry_idx, entry_sig,
                   entry_pos, entry_atr>>

\* No test of the loop body matches: the bar changes nothing.
BtSkip ==
    /\ pc = "loop"
    /\ i < Len(df)
    /\ BranchNow = "none"
    /\ i' = NextBar("none", i)
    /\ UNCHANGED <<pc, df, max_hold_bars, in_pos, entry_price, entry_idx,
                   entry_sig, entry_pos, entry_atr, rows>>

\* Mutant of EndLabel: the label of the block the end-of-data block was copied from.
EndLabel_TimeStop == "TIME_STOP"

\* The exit_signal of the row written after the loop (line 128).
EndLabel == "END"

\* Lines 108-138: after the loop, close what is still open and return.
BtEndClose ==
    /\ pc = "loop"
    /\ i = Len(df)
    /\ in_pos
    /\ rows' = Append(rows, Trade(df, entry_pos, entry_idx, entry_sig, entry_price,
                                  entry_atr, Len(df) - 1, EndLabel,
                                  Len(df) - 1 - entry_pos))
    /\ pc' = "done"
    /\ UNCHANGED <<df, max_hold_bars, i, in_pos, entry_price, entry_idx,
                   entry_sig, entry_pos, entry_atr>>

\* Line 138 with no position open.
BtEndFlat ==
    /\ pc = "loop"
    /\ i = Len(df)
    /\ ~in_pos
    /\ pc' = "done"
    /\ UNCHANGED <<df, max_hold_bars, i, in_pos, entry_price, entry_idx,
                   entry_sig, entry_pos, entry_atr, rows>>

\* ------------------------------------------- backtest.py: the summary
\* Exact arithmetic on the fractions <<numerator, denominator>> of the trades.
Abs(x) == IF x < 0 THEN -x ELSE x

RECURSIVE Gcd(_, _)
Gcd(a, b) == IF b = 0 THEN a ELSE Gcd(b, a % b)

\* The fraction in lowest terms with a positive denominator.
Norm(f) ==
    LET g == Gcd(Abs(f[1]), Abs(f[2]))
        sgn == IF f[2] < 0 THEN -1 ELSE 1
    IN  IF g = 0 THEN f ELSE <<sgn * (f[1] \div g), sgn * (f[2] \div g)>>

FracAdd(f, g) ==
    LET a == Norm(f)
        b == Norm(g)
    IN  Norm(<<a[1] * b[2] + b[1] * a[2], a[2] * b[2]>>)

RECURSIVE FracSum(_)
FracSum(fs) == IF Len(fs) = 0 THEN <<0, 1>> ELSE FracAdd(Head(fs), FracSum(Tail(fs)))

\* Series.mean(): NaN cells are skipped, and the mean of no cell is NaN.
Mean(fs) ==
    LET cells == SelectSeq(fs, LAMBDA f : ~isna(f[1]))
        total == FracSum(cells)
    IN  IF Len(cells) = 0 THEN <<NaN, 1>>
        ELSE Norm(<<total[1], total[2] * Len(cells)>>)

Column(rs, col) == [k \in 1..Len(rs) |-> rs[k][col]]

\* df_bt["correct"].mean() * 100
HitRate(rs) == Mean([k \in 1..Len(rs) |-> IF rs[k].correct THEN <<100, 1>> ELSE <<0, 1>>])

\* The four overall entries of the summary (lines 145-150).
Overall(rs) ==
    [total_trades |-> Len(rs),
     overall_avg_return |-> Mean(Column(rs, "ret_pct")),
     overall_hit_rate |-> HitRate(rs),
     overall_avg_r |-> Mean(Column(rs, "r_multiple"))]

\* The entry of per_type for one entry signal (lines 154-162).
PerType(rs, sig) ==
    LET sub == SelectSeq(rs, LAMBDA r : r.signal = sig)
    IN  ("Signal" :> sig) @@ ("Trades" :> Len(sub))
            @@ ("Avg Return %" :> Mean(Column(sub, "ret_pct")))
            @@ ("Hit Rate %" :> HitRate(sub))
            @@ ("Avg R" :> Mean(Column(sub, "r_multiple")))

\* per_type: one entry per signal of the list that opened a trade, in list order.
RECURSIVE PerTypes(_, _)
PerTypes(rs, sigs) ==
    IF Len(sigs) = 0 THEN <<>>
    ELSE IF \A k \in 1..Len(rs) : rs[k].signal # Head(sigs)
    THEN PerTypes(rs, Tail(sigs))
    ELSE <<PerType(rs, Head(sigs))>> \o PerTypes(rs, Tail(sigs))

\* Mutant of summarize_backtest: without the test for the empty frame.
summarize_backtest_NoEmptyTest(rs) ==
    Overall(rs) @@ ("per_type" :> PerTypes(rs, <<"STRONG BUY", "BUY", "SELL", "STRONG SELL">>))

\* summarize_backtest (lines 141-165); the dict {} is the function with no key.
summarize_backtest(rs) ==
    IF Len(rs) = 0 THEN <<>>
    ELSE Overall(rs) @@ ("per_type" :> PerTypes(rs, <<"STRONG BUY", "BUY", "SELL", "STRONG SELL">>))

\* ui.py line 1183: stats = summarize_backtest(bt), on what the call returned.
BtSummarize ==
    /\ pc = "done"
    /\ stats = <<>>
    /\ stats' = <<summarize_backtest(rows)>>
    /\ UNCHANGED bt_vars

\* ------------------------------- one pass of the loop body, at any bar
\* (open, high, low, close) of the candle looked at.
CandleSet ==
    {<<90, 90, 90, 90>>, <<97, 97, 97, 97>>, <<112, 130, 110, 115>>,
     <<118, 120, 118, 120>>, <<125, 125, 120, 125>>}

\* (bb_up, bb_lo, bb_mid): wide bands, narrow bands, warm-up.
BandSet == {<<110, 90, 100>>, <<102, 98, 100>>, <<NaN, NaN, NaN>>}

\* The columns only ui.py reads: (ema20, adx14, atr14, rvol20 in hundredths)
\* and the high of the candle before.
UiExtraSet ==
    {<<110, NaN, NaN, NaN, 100>>, <<110, 15, 2, 120, 100>>,
     <<110, 25, 2, 120, 100>>, <<95, 25, 20, 80, 130>>}

\* Every candle pair the single-bar runs are given.
OneBarSet ==
    {[last |-> [open |-> c[1], high |-> c[2], low |-> c[3], close |-> c[4],
                ema50 |-> e50, ma200 |-> m200, rsi14 |-> rsi,
                bb_up |-> bb[1], bb_lo |-> bb[2], bb_mid |-> bb[3],
                ema20 |-> x[1], adx14 |-> x[2], atr14 |-> x[3], rvol20 |-> x[4]],
      prev |-> [close |-> pcl, rsi14 |-> prsi, high |-> x[5]],
      last_sig |-> ls] :
        c \in CandleSet, e50 \in {100, 125}, m200 \in {NaN, 85, 90, 130},
        rsi \in {NaN, 25, 32, 40, 60, 74, 75, 85}, bb \in BandSet, x \in UiExtraSet,
        pcl \in {100, 130}, prsi \in {20, 50, 90},
        ls \in ACTIONABLE \cup {"NO DATA"}}

OneInit ==
    /\ one_bar \in OneBarSet
    /\ one_out = <<>>
    /\ ui_out = <<>>
    \* compute_signals is not running
    /\ sig_pc = "done"
    /\ sig_df = <<>>
    /\ sig_i = 0
    /\ signals = <<>>
    /\ reasons = <<>>
    /\ last_sig = "NO DATA"
    /\ sig_ret = <<>>
    /\ caller_df = <<>>
    /\ sig_aliased = TRUE
    \* compute_backtest_trades is not running
    /\ pc = "done"
    /\ df = <<>>
    /\ max_hold_bars = 0
    /\ i = 0
    /\ in_pos = FALSE
    /\ entry_price = None
    /\ entry_idx = None
    /\ entry_sig = None
    /\ entry_pos = None
    /\ entry_atr = None
    /\ rows = <<>>
    /\ stats = <<>>
    \* latest_signal is not running
    /\ lat_df = <<>>
    /\ lat_ret = <<>>
    /\ ui_lat_ret = <<>>
    \* a single call, not a run of refreshes
    /\ cyc_phase = "off"
    /\ cyc_queue = <<>>
    /\ cyc_hist = <<>>
    /\ rsi_series = <<>>
    /\ rsi_ret = <<>>
    /\ ind_df = <<>>
    /\ ind_ret = <<>>
    /\ session_state = <<>>
    /\ ntf_queue = <<>>
    /\ ntf_log = <<>>

\* signals.py lines 203-212 on the pair.
OneBar ==
    /\ one_out = <<>>
    /\ one_out' = <<TransitionFilter(signal_with_reason(one_bar.last, one_bar.prev),
                                     one_bar.last_sig)>>
    /\ UNCHANGED <<one_bar, ui_out>>

\* ui.py lines 567-581 on the pair.
UiOneBar ==
    /\ ui_out = <<>>
    /\ ui_out' = <<UiTransitionFilter(ui_signal_with_reason(one_bar.last, one_bar.prev),
                                      one_bar.last_sig)>>
    /\ UNCHANGED <<one_bar, one_out>>

\* ---------------------------------------------------------- latest_signal
\* Mutant of VALID_SIGNALS: HOLD does not count as a signal.
VALID_SIGNALS_NoHold == {"STRONG BUY", "BUY", "SELL", "STRONG SELL"}

\* ["STRONG BUY", "BUY", "HOLD", "SELL", "STRONG SELL"] (signals.py line 225,
\* VALID_SIGNALS of ui.py line 64).
VALID_SIGNALS == {"STRONG BUY", "BUY", "HOLD", "SELL", "STRONG SELL"}

\* df[df["signal"].isin(valid)]
ValidRows(d) == SelectSeq(d, LAMBDA r : r.signal \in VALID_SIGNALS)

\* Mutant of latest_signal: the last record decides, valid or not.
latest_signal_LastRecord(d) ==
    IF Len(d) = 0 \/ ~HasColumn(d, "signal") THEN "NO DATA"
    ELSE d[Len(d)].signal

\* signals.py lines 222-227.
latest_signal(d) ==
    IF Len(d) = 0 \/ ~HasColumn(d, "signal") THEN "NO DATA"
    ELSE IF Len(ValidRows(d)) # 0 THEN ValidRows(d)[Len(ValidRows(d))].signal
    ELSE "NO DATA"

\* ui.py lines 591-595: the two tests of the first line in the other order.
ui_latest_signal(d) ==
    IF ~HasColumn(d, "signal") \/ Len(d) = 0 THEN "NO DATA"
    ELSE IF Len(ValidRows(d)) # 0 THEN ValidRows(d)[Len(ValidRows(d))].signal
    ELSE "NO DATA"

\* Records as latest_signal meets them: with a signal column holding one of the
\* six signals or an empty cell, or without the column.
RecordSet == {[signal |-> x] : x \in ALL_SIGNALS \cup {""}}
BareRecordSet == {[close |-> 100]}

LatInit ==
    /\ lat_df \in SeqsUpTo(RecordSet, MaxFrames) \cup SeqsUpTo(BareRecordSet, MaxFrames)
    /\ lat_ret = <<>>
    /\ ui_lat_ret = <<>>
    \* compute_signals is not running
    /\ sig_pc = "done"
    /\ sig_df = <<>>
    /\ sig_i = 0
    /\ signals = <<>>
    /\ reasons = <<>>
    /\ last_sig = "NO DATA"
    /\ sig_ret = <<>>
    /\ caller_df = <<>>
    /\ sig_aliased = TRUE
    \* compute_backtest_trades is not running
    /\ pc = "done"
    /\ df = <<>>
    /\ max_hold_bars = 0
    /\ i = 0
    /\ in_pos = FALSE
    /\ entry_price = None
    /\ entry_idx = None
    /\ entry_sig = None
    /\ entry_pos = None
    /\ entry_atr = None
    /\ rows = <<>>
    /\ stats = <<>>
    \* no single bar is being looked at
    /\ one_bar = None
    /\ one_out = <<>>
    /\ ui_out = <<>>
    \* a single call, not a run of refreshes
    /\ cyc_phase = "off"
    /\ cyc_queue = <<>>
    /\ cyc_hist = <<>>
    /\ rsi_series = <<>>
    /\ rsi_ret = <<>>
    /\ ind_df = <<>>
    /\ ind_ret = <<>>
    /\ session_state = <<>>
    /\ ntf_queue = <<>>
    /\ ntf_log = <<>>

LatestSignal ==
    /\ lat_ret = <<>>
    /\ lat_ret' = <<latest_signal(lat_df)>>
    /\ UNCHANGED <<lat_df, ui_lat_ret>>

UiLatestSignal ==
    /\ ui_lat_ret = <<>>
    /\ ui_lat_ret' = <<ui_latest_signal(lat_df)>>
    /\ UNCHANGED <<lat_df, lat_ret>>

\* --------------------------------------------------- the refreshes (ui.py)
\* Frames of a refresh: below ma200 (HOLD); a pullback under ema50 that is a
\* BUY after the first; a blow-off candle that is a STRONG SELL after the second.
CycleFrameSet ==
    { Frame( 80,  80,  80,  80, 100, 100, 20, 110,  90, 100),
      Frame(120, 120, 120, 120, 200,  85, 40, 110,  90, 100),
      Frame(112, 130, 110, 115, 100,  85, 75, 110,  90, 100) }

\* Three refreshes: on some frames, on any other frames, on the first frames again.
CycInit ==
    /\ cyc_phase = "signals"
    /\ \E x \in SeqsUpTo(CycleFrameSet, MaxCycleFrames),
          y \in SeqsUpTo(CycleFrameSet, MaxBetween) :
          /\ sig_df = x
          /\ cyc_queue = <<y, x>>
    /\ cyc_hist = <<>>
    /\ max_hold_bars \in 0..MaxCycleHold
    /\ sig_pc = "start"
    /\ sig_i = 0
    /\ signals = <<>>
    /\ reasons = <<>>
    /\ last_sig = "NO DATA"
    /\ sig_ret = <<>>
    /\ caller_df = sig_df
    /\ sig_aliased = TRUE
    /\ pc = "done"
    /\ df = <<>>
    /\ i = 0
    /\ in_pos = FALSE
    /\ entry_price = None
    /\ entry_idx = None
    /\ entry_sig = None
    /\ entry_pos = None
    /\ entry_atr = None
    /\ rows = <<>>
    /\ stats = <<>>
    \* no single bar is being looked at
    /\ one_bar = None
    /\ one_out = <<>>
    /\ ui_out = <<>>
    \* latest_signal is not running
    /\ lat_df = <<>>
    /\ lat_ret = <<>>
    /\ ui_lat_ret = <<>>
    /\ rsi_series = <<>>
    /\ rsi_ret = <<>>
    /\ ind_df = <<>>
    /\ ind_ret = <<>>
    /\ session_state = <<>>
    /\ ntf_queue = <<>>
    /\ ntf_log = <<>>

\* ui.py line 1180: bt = compute_backtest_trades(df, max_hold_bars=tf_stop, ...)
\* on the frame compute_signals returned.  The locals of the call before are
\* whatever that call left.
CycBacktest ==
    /\ cyc_phase = "signals"
    /\ sig_pc = "done"
    /\ df' = ReturnedFrame(sig_df, sig_ret)
    /\ pc' = "start"
    /\ stats' = <<>>
    /\ cyc_phase' = "backtest"
    /\ UNCHANGED <<max_hold_bars, i, in_pos, entry_price, entry_idx, entry_sig,
                   entry_pos, entry_atr, rows, cyc_queue, cyc_hist>>
    /\ UNCHANGED sig_vars

\* The refresh is over; the next one calls compute_signals (ui.py line 841) on
\* its frames.
CycRefresh ==
    /\ cyc_phase = "backtest"
    /\ pc = "done"
    /\ Len(stats) = 1
    /\ cyc_hist' = Append(cyc_hist, [frames |-> sig_df, max_hold_bars |-> max_hold_bars,
                                     signals |-> sig_ret, trades |-> rows,
                                     stats |-> stats[1]])
    /\ IF Len(cyc_queue) = 0
       THEN /\ cyc_phase' = "idle"
            /\ UNCHANGED <<cyc_queue, sig_df, sig_pc, caller_df, sig_aliased>>
       ELSE /\ cyc_phase' = "signals"
            /\ sig_df' = Head(cyc_queue)
            /\ caller_df' = Head(cyc_queue)
            /\ sig_aliased' = TRUE
            /\ cyc_queue' = Tail(cyc_queue)
            /\ sig_pc' = "start"
    /\ UNCHANGED <<sig_i, signals, reasons, last_sig, sig_ret>>
    /\ UNCHANGED <<bt_vars, sum_vars>>

\* ------------------------------------------- ui.py: its own compute_signals
UiFrame(c, h, e20, e50, m200, rsi, up) ==
    [open |-> c, high |-> h, low |-> c, close |-> c, ema20 |-> e20, ema50 |-> e50,
     ma200 |-> m200, rsi14 |-> rsi, bb_up |-> up, bb_lo |-> 80, bb_mid |-> 95,
     adx14 |-> 25, atr14 |-> 2, rvol20 |-> 120]

\* Frames with the columns ui.py computes: warm-up, an up-trend at its ema20 with
\* rsi 40 and then 45 (a dip BUY after the first), and a close over the upper
\* band with rsi 85, then 78, then 74 (a SELL after the first, a SELL again).
UiFrameSet ==
    { UiFrame(100, 100, 100,  95, NaN, 50, NaN),
      UiFrame(100, 100, 100,  95,  90, 40, 110),
      UiFrame(100, 100, 100,  95,  90, 45, 110),
      UiFrame(120, 125, 115, 100,  90, 85, 110),
      UiFrame(120, 125, 115, 100,  90, 78, 110),
      UiFrame(120, 125, 115, 100,  90, 74, 110) }

\* ui.py lines 552-554: fewer than two frames.
UiSigShortResult(d) ==
    [k \in 1..Len(d) |-> [signal |-> "NO DATA",
                          signal_reason |-> "Nicht genug Daten fuer ein Signal."]]

\* ui.py lines 561-581: one pass of the loop body for bar b.
UiSigLoopBody(d, b, st) ==
    IF b = 0
    THEN [signals |-> Append(st.signals, "NO DATA"),
          reasons |-> Append(st.reasons,
                        "Erste Candle - keine Historie fuer Signalberechnung."),
          last_sig |-> st.last_sig]
    ELSE LET t == UiTransitionFilter(ui_signal_with_reason(d[b + 1], d[b]), st.last_sig)
         IN [signals |-> Append(st.signals, t.signal),
             reasons |-> Append(st.reasons, t.reason),
             last_sig |-> t.last_sig]

UiSigInit ==
    /\ sig_pc = "start"
    /\ sig_df \in SeqsUpTo(UiFrameSet, MaxUiFrames)
    /\ sig_i = 0
    /\ signals = <<>>
    /\ reasons = <<>>
    /\ last_sig = "NO DATA"
    /\ sig_ret = <<>>
    /\ caller_df = sig_df
    /\ sig_aliased = TRUE
    \* compute_backtest_trades is not running
    /\ pc = "done"
    /\ df = <<>>
    /\ max_hold_bars = 0
    /\ i = 0
    /\ in_pos = FALSE
    /\ entry_price = None
    /\ entry_idx = None
    /\ entry_sig = None
    /\ entry_pos = None
    /\ entry_atr = None
    /\ rows = <<>>
    /\ stats = <<>>
    \* no single bar is being looked at
    /\ one_bar = None
    /\ one_out = <<>>
    /\ ui_out = <<>>
    \* latest_signal is not running
    /\ lat_df = <<>>
    /\ lat_ret = <<>>
    /\ ui_lat_ret = <<>>
    \* a single call, not a run of refreshes
    /\ cyc_phase = "off"
    /\ cyc_queue = <<>>
    /\ cyc_hist = <<>>
    /\ rsi_series = <<>>
    /\ rsi_ret = <<>>
    /\ ind_df = <<>>
    /\ ind_ret = <<>>
    /\ session_state = <<>>
    /\ ntf_queue = <<>>
    /\ ntf_log = <<>>

\* if df.empty or len(df) < 2: df["signal"] = ...; df["signal_reason"] = ...;
\* return df -- on df as it was passed, there is no copy.
UiSigShort ==
    /\ sig_pc = "start"
    /\ Len(sig_df) < 2
    /\ sig_ret' = UiSigShortResult(sig_df)
    /\ caller_df' = Assigned(sig_aliased, caller_df, sig_ret')
    /\ sig_pc' = "done"
    /\ UNCHANGED <<sig_df, sig_i, signals, reasons, last_sig, sig_aliased>>

\* signals = []; reasons = []; last_sig = "NO DATA"
UiSigEnter ==
    /\ sig_pc = "start"
    /\ ~(Len(sig_df) < 2)
    /\ signals' = <<>>
    /\ reasons' = <<>>
    /\ last_sig' = "NO DATA"
    /\ sig_i' = 0
    /\ sig_pc' = "loop"
    /\ UNCHANGED <<sig_df, sig_ret, caller_df, sig_aliased>>

\* One pass of `for i in range(len(df))`.
UiSigBar ==
    /\ sig_pc = "loop"
    /\ sig_i < Len(sig_df)
    /\ LET st == UiSigLoopBody(sig_df, sig_i,
                   [signals |-> signals, reasons |-> reasons, last_sig |-> last_sig])
       IN /\ signals' = st.signals
          /\ reasons' = st.reasons
          /\ last_sig' = st.last_sig
    /\ sig_i' = sig_i + 1
    /\ UNCHANGED <<sig_pc, sig_df, sig_ret, caller_df, sig_aliased>>

\* df["signal"] = signals; df["signal_reason"] = reasons; return df
UiSigReturn ==
    /\ sig_pc = "loop"
    /\ sig_i = Len(sig_df)
    /\ sig_ret' = SigColumns(signals, reasons)
    /\ caller_df' = Assigned(sig_aliased, caller_df, sig_ret')
    /\ sig_pc' = "done"
    /\ UNCHANGED <<sig_df, sig_i, signals, reasons, last_sig, sig_aliased>>

\* ------------------------------------------------- indicators.py: compute_rsi
\* Floats of this section are pairs <<n, d>> standing for n / d, with d > 0 for
\* a finite value; a division by zero gives what IEEE gives, inf or nan.
Inf == <<1, 0>>
NaNf == <<0, 0>>

\* up = delta.clip(lower=0), down = -delta.clip(upper=0) with delta =
\* series.diff(), at bar b >= 1 (delta, up and down are NaN at bar 0).
delta(series, b) == series[b + 1] - series[b]
up(series, b) == IF delta(series, b) > 0 THEN delta(series, b) ELSE 0
down(series, b) == IF delta(series, b) < 0 THEN -delta(series, b) ELSE 0

RECURSIVE Pow14(_)
Pow14(n) == IF n = 0 THEN 1 ELSE 14 * Pow14(n - 1)

\* x.ewm(alpha=1 / period, adjust=False).mean() at bar b >= 1, for period 14 and
\* x NaN at bar 0: y[1] = x[1], y[b] = (13 * y[b - 1] + x[b]) / 14.  The value
\* returned is y[b] * 14^(b - 1), an integer; roll_up and roll_down of one bar
\* carry the same factor.
RECURSIVE roll_up(_, _)
roll_up(series, b) ==
    IF b = 1 THEN up(series, 1)
    ELSE 13 * roll_up(series, b - 1) + Pow14(b - 2) * up(series, b)

RECURSIVE roll_down(_, _)
roll_down(series, b) ==
    IF b = 1 THEN down(series, 1)
    ELSE 13 * roll_down(series, b - 1) + Pow14(b - 2) * down(series, b)

\* n / d for n >= 0 and d >= 0: x / 0 is inf, 0 / 0 is nan.
FDiv(n, d) == IF d = 0 THEN (IF n = 0 THEN NaNf ELSE Inf) ELSE <<n, d>>

\* 1 + rs
OnePlus(x) == IF x[2] = 0 THEN x ELSE <<x[2] + x[1], x[2]>>

\* 100 / x for x >= 1, inf or nan: 100 / inf is 0.
HundredOver(x) ==
    IF x = NaNf THEN NaNf
    ELSE IF x = Inf THEN <<0, 1>>
    ELSE <<100 * x[2], x[1]>>

\* 100 - x for x finite or nan.
HundredMinus(x) == IF x = NaNf THEN NaNf ELSE <<100 * x[2] - x[1], x[2]>>

\* rs = roll_up / roll_down; rsi = 100 - (100 / (1 + rs))  (lines 33-34)
rsi_at(series, b) ==
    IF b = 0 THEN NaNf
    ELSE HundredMinus(HundredOver(OnePlus(FDiv(roll_up(series, b), roll_down(series, b)))))

\* compute_rsi (lines 18-36): the rsi series of a close series.
compute_rsi(series) == [k \in 1..Len(series) |-> rsi_at(series, k - 1)]

\* Closes that rise, fall and stay.
CloseSet == {99, 100, 101, 103}

RsiInit ==
    /\ rsi_series \in SeqsUpTo(CloseSet, MaxRsiBars)
    /\ rsi_ret = <<>>
    \* nothing else is running
    /\ sig_pc = "start"
    /\ sig_df = <<>>
    /\ sig_i = 0
    /\ signals = <<>>
    /\ reasons = <<>>
    /\ last_sig = "NO DATA"
    /\ sig_ret = <<>>
    /\ caller_df = <<>>
    /\ sig_aliased = TRUE
    /\ pc = "done"
    /\ df = <<>>
    /\ max_hold_bars = 0
    /\ i = 0
    /\ in_pos = FALSE
    /\ entry_price = None
    /\ entry_idx = None
    /\ entry_sig = None
    /\ entry_pos = None
    /\ entry_atr = None
    /\ rows = <<>>
    /\ stats = <<>>
    /\ one_bar = None
    /\ one_out = <<>>
    /\ ui_out = <<>>
    /\ lat_df = <<>>
    /\ lat_ret = <<>>
    /\ ui_lat_ret = <<>>
    /\ cyc_phase = "off"
    /\ cyc_queue = <<>>
    /\ cyc_hist = <<>>
    /\ ind_df = <<>>
    /\ ind_ret = <<>>
    /\ session_state = <<>>
    /\ ntf_queue = <<>>
    /\ ntf_log = <<>>

\* indicators.py line 77: df["rsi14"] = compute_rsi(close)
ComputeRsi ==
    /\ rsi_ret = <<>>
    /\ rsi_ret' = <<compute_rsi(rsi_series)>>
    /\ UNCHANGED rsi_series

\* ------------------------------------------ indicators.py: compute_indicators
\* close.rolling(200) and close.rolling(20)
MaWindow == 200
BbWindow == 20

\* The sum of f(x[b']) over the bars lo..b of x.
RECURSIVE SumOver(_, _, _, _)
SumOver(x, lo, b, sq) ==
    IF b < lo THEN 0
    ELSE (IF sq THEN x[b + 1] * x[b + 1] ELSE x[b + 1]) + SumOver(x, lo, b - 1, sq)

\* Mutant of WindowOf: the window is centred on the bar, as far as the series goes.
WindowOf_Centred(x, b, n) ==
    IF b + 1 < n THEN <<>>
    ELSE IF b + 2 <= Len(x) THEN <<b - n + 2, b + 1>>
    ELSE <<b - n + 1, b>>

\* rolling(n) at bar b: the bars b - n + 1 .. b once there are n of them
\* (min_periods is the window), no window before.
WindowOf(x, b, n) == IF b + 1 < n THEN <<>> ELSE <<b - n + 1, b>>

\* close.rolling(n).mean() at bar b, as <<sum, n>>.
rolling_mean(x, b, n) ==
    LET w == WindowOf(x, b, n)
    IN  IF w = <<>> THEN NaNf ELSE <<SumOver(x, w[1], w[2], FALSE), n>>

\* close.rolling(n).std(ddof=0) at bar b is sqrt(n * sum(x^2) - sum(x)^2) / n;
\* the value returned is the radicand, or NaN.
rolling_std(x, b, n) ==
    LET w == WindowOf(x, b, n)
        s1 == SumOver(x, w[1], w[2], FALSE)
        s2 == SumOver(x, w[1], w[2], TRUE)
    IN  IF w = <<>> THEN NaN ELSE n * s2 - s1 * s1

\* sma20 + k * std20 for k = 2 or -2, as <<sum, k, radicand, n>> standing for
\* (sum + k * sqrt(radicand)) / n; NaN is <<0, 0, 0, 0>>.
band(x, b, k) ==
    LET m == rolling_mean(x, b, BbWindow)
        v == rolling_std(x, b, BbWindow)
    IN  IF m = NaNf THEN <<0, 0, 0, 0>> ELSE <<m[1], k, v, BbWindow>>

\* A float of this section is NaN when its divisor is 0.
undefined(v) == v[Len(v)] = 0

\* The columns compute_indicators adds at bar b (lines 66-72) that have a
\* rolling window.  ema20, ema50 and rsi14 (lines 62-63, 77) have none and are
\* left out: rsi14 is compute_rsi above.
IndicatorsAt(x, b) ==
    [ma200 |-> rolling_mean(x, b, MaWindow),
     bb_mid |-> rolling_mean(x, b, BbWindow),
     bb_up |-> band(x, b, 2),
     bb_lo |-> band(x, b, -2)]

\* compute_indicators (lines 42-83): the empty frame comes back as it is; a
\* frame without "close" raises inside the try and the copy comes back without
\* new columns.
compute_indicators(d) ==
    IF Len(d) = 0 THEN d
    ELSE IF ~HasColumn(d, "close") THEN d
    ELSE LET x == [k \in 1..Len(d) |-> d[k].close]
         IN  [k \in 1..Len(d) |-> IndicatorsAt(x, k - 1) @@ d[k]]

\* Candle sequences: close 100 + (k * step) % 7 at bar k, flat for step 0.
Candles(n, step) == [k \in 1..n |-> [close |-> 100 + (((k - 1) * step) % 7)]]

IndInit ==
    /\ \E n \in 0..MaxCandles :
          \/ \E step \in {0, 1, 3} : ind_df = Candles(n, step)
          \/ ind_df = [k \in 1..n |-> [open |-> 100]]
    /\ ind_ret = <<>>
    \* nothing else is running
    /\ sig_pc = "start"
    /\ sig_df = <<>>
    /\ sig_i = 0
    /\ signals = <<>>
    /\ reasons = <<>>
    /\ last_sig = "NO DATA"
    /\ sig_ret = <<>>
    /\ caller_df = <<>>
    /\ sig_aliased = TRUE
    /\ pc = "done"
    /\ df = <<>>
    /\ max_hold_bars = 0
    /\ i = 0
    /\ in_pos = FALSE
    /\ entry_price = None
    /\ entry_idx = None
    /\ entry_sig = None
    /\ entry_pos = None
    /\ entry_atr = None
    /\ rows = <<>>
    /\ stats = <<>>
    /\ one_bar = None
    /\ one_out = <<>>
    /\ ui_out = <<>>
    /\ lat_df = <<>>
    /\ lat_ret = <<>>
    /\ ui_lat_ret = <<>>
    /\ cyc_phase = "off"
    /\ cyc_queue = <<>>
    /\ cyc_hist = <<>>
    /\ rsi_series = <<>>
    /\ rsi_ret = <<>>
    /\ session_state = <<>>
    /\ ntf_queue = <<>>
    /\ ntf_log = <<>>

\* One call of compute_indicators of indicators.py.
ComputeIndicators ==
    /\ ind_ret = <<>>
    /\ ind_ret' = <<compute_indicators(ind_df)>>
    /\ UNCHANGED ind_df

\* ------------------------------------ ui.py: the e-mail on a signal change
\* prev_key = f"last_signal_{market}_{symbol_label}_{tf_label}", for the one key.
prev_key == "last_signal"

\* st.session_state.get(prev_key): <<the value>>, or <<>> for None.
SessionGet(ss) == IF prev_key \in DOMAIN ss THEN <<ss[prev_key]>> ELSE <<>>

\* send_signal_email (email_notifier.py lines 67-128) on the settings and the
\* SMTP server it finds: (ok, msg).
send_signal_email(env) ==
    IF ~env.enabled
    THEN <<FALSE, "E-Mail-Benachrichtigungen sind deaktiviert (email.enabled/EMAIL_ENABLED).">>
    ELSE IF ~env.from_addr \/ ~env.to_addr
    THEN <<FALSE, "Fehlende from_addr/to_addr in [email] oder Env-Variablen.">>
    ELSE IF ~env.smtp_password
    THEN <<FALSE, "Kein SMTP/App-Passwort gesetzt (smtp_password/SMTP_PASSWORD).">>
    ELSE IF env.smtp_ok
    THEN <<TRUE, "E-Mail erfolgreich gesendet.">>
    ELSE <<FALSE, "Fehler beim Versand">>

\* Mutant of SendTest: every actionable signal is mailed, changed or not.
SendTest_NoChangeTest(prev_sig, sig) == sig \in ACTIONABLE

\* prev_sig != sig and sig in ["STRONG BUY", "BUY", "SELL", "STRONG SELL"]
SendTest(prev_sig, sig) == prev_sig # <<sig>> /\ sig \in ACTIONABLE

\* Mutant of StoreAfter: the signal is stored only when the e-mail went out.
StoreAfter_OnlyWhenSent(ss, sig, called, ok) ==
    IF called /\ ~ok THEN ss ELSE (prev_key :> sig) @@ ss

\* st.session_state[prev_key] = sig (line 896), after the send or without one.
StoreAfter(ss, sig, called, ok) == (prev_key :> sig) @@ ss

\* Settings and server as a refresh finds them: switched off, no address, no
\* password, server refusing, all well.
EnvSet ==
    {[enabled |-> FALSE, from_addr |-> TRUE, to_addr |-> TRUE, smtp_password |-> TRUE, smtp_ok |-> TRUE],
     [enabled |-> TRUE, from_addr |-> TRUE, to_addr |-> FALSE, smtp_password |-> TRUE, smtp_ok |-> TRUE],
     [enabled |-> TRUE, from_addr |-> TRUE, to_addr |-> TRUE, smtp_password |-> FALSE, smtp_ok |-> TRUE],
     [enabled |-> TRUE, from_addr |-> TRUE, to_addr |-> TRUE, smtp_password |-> TRUE, smtp_ok |-> FALSE],
     [enabled |-> TRUE, from_addr |-> TRUE, to_addr |-> TRUE, smtp_password |-> TRUE, smtp_ok |-> TRUE]}

\* What a refresh finds: frames with a latest signal (two frames or more, so
\* never NO DATA) and an environment, or fewer than two frames.
RefreshSet ==
    {[data |-> TRUE, sig |-> x, env |-> e] : x \in {"HOLD", "BUY", "SELL"}, e \in EnvSet}
        \cup {[data |-> FALSE, sig |-> "NO DATA"]}

NtfInit ==
    /\ session_state = <<>>
    /\ ntf_queue \in SeqsUpTo(RefreshSet, MaxRefreshes)
    /\ ntf_log = <<>>
    \* nothing else is running
    /\ sig_pc = "start"
    /\ sig_df = <<>>
    /\ sig_i = 0
    /\ signals = <<>>
    /\ reasons = <<>>
    /\ last_sig = "NO DATA"
    /\ sig_ret = <<>>
    /\ caller_df = <<>>
    /\ sig_aliased = TRUE
    /\ pc = "done"
    /\ df = <<>>
    /\ max_hold_bars = 0
    /\ i = 0
    /\ in_pos = FALSE
    /\ entry_price = None
    /\ entry_idx = None
    /\ entry_sig = None
    /\ entry_pos = None
    /\ entry_atr = None
    /\ rows = <<>>
    /\ stats = <<>>
    /\ one_bar = None
    /\ one_out = <<>>
    /\ ui_out = <<>>
    /\ lat_df = <<>>
    /\ lat_ret = <<>>
    /\ ui_lat_ret = <<>>
    /\ cyc_phase = "off"
    /\ cyc_queue = <<>>
    /\ cyc_hist = <<>>
    /\ rsi_series = <<>>
    /\ rsi_ret = <<>>
    /\ ind_df = <<>>
    /\ ind_ret = <<>>

\* Lines 851-859: df.empty or len(df) < 2: sig = "NO DATA", nothing is sent and
\* nothing is stored.
RefreshNoData ==
    /\ Len(ntf_queue) > 0
    /\ ~Head(ntf_queue).data
    /\ ntf_log' = Append(ntf_log, [data |-> FALSE, sig |-> "NO DATA",
                                   prev_sig |-> SessionGet(session_state),
                                   called |-> FALSE, ok |-> FALSE,
                                   stored |-> SessionGet(session_state)])
    /\ ntf_queue' = Tail(ntf_queue)
    /\ UNCHANGED session_state

\* Lines 860-896: sig = latest_signal_ext(df); the e-mail when the signal has
\* changed; st.session_state[prev_key] = sig.
RefreshData ==
    /\ Len(ntf_queue) > 0
    /\ Head(ntf_queue).data
    /\ LET sig == Head(ntf_queue).sig
           prev_sig == SessionGet(session_state)
           called == SendTest(prev_sig, sig)
           ok == called /\ send_signal_email(Head(ntf_queue).env)[1]
       IN  /\ session_state' = StoreAfter(session_state, sig, called, ok)
           /\ ntf_log' = Append(ntf_log, [data |-> TRUE, sig |-> sig,
                                          prev_sig |-> prev_sig,
                                          called |-> called, ok |-> ok,
                                          stored |-> SessionGet(session_state')])
    /\ ntf_queue' = Tail(ntf_queue)

\* ------------------------------------------------------- specifications
SigNext ==
    \/ SigShort /\ UNCHANGED <<bt_vars, sum_vars, one_vars, lat_vars, cyc_vars, rsi_vars, ind_vars, ntf_vars>>
    \/ SigEnter /\ UNCHANGED <<bt_vars, sum_vars, one_vars, lat_vars, cyc_vars, rsi_vars, ind_vars, ntf_vars>>
    \/ SigBar /\ UNCHANGED <<bt_vars, sum_vars, one_vars, lat_vars, cyc_vars, rsi_vars, ind_vars, ntf_vars>>
    \/ SigReturn /\ UNCHANGED <<bt_vars, sum_vars, one_vars, lat_vars, cyc_vars, rsi_vars, ind_vars, ntf_vars>>

BtNext ==
    \/ BtEmpty /\ UNCHANGED <<sig_vars, sum_vars, one_vars, lat_vars, cyc_vars, rsi_vars, ind_vars, ntf_vars>>
    \/ BtEnter /\ UNCHANGED <<sig_vars, sum_vars, one_vars, lat_vars, cyc_vars, rsi_vars, ind_vars, ntf_vars>>
    \/ BtEntry /\ UNCHANGED <<sig_vars, sum_vars, one_vars, lat_vars, cyc_vars, rsi_vars, ind_vars, ntf_vars>>
    \/ BtExitSignal /\ UNCHANGED <<sig_vars, sum_vars, one_vars, lat_vars, cyc_vars, rsi_vars, ind_vars, ntf_vars>>
    \/ BtTimeStop /\ UNCHANGED <<sig_vars, sum_vars, one_vars, lat_vars, cyc_vars, rsi_vars, ind_vars, ntf_vars>>
    \/ BtSkip /\ UNCHANGED <<sig_vars, sum_vars, one_vars, lat_vars, cyc_vars, rsi_vars, ind_vars, ntf_vars>>
    \/ BtEndClose /\ UNCHANGED <<sig_vars, sum_vars, one_vars, lat_vars, cyc_vars, rsi_vars, ind_vars, ntf_vars>>
    \/ BtEndFlat /\ UNCHANGED <<sig_vars, sum_vars, one_vars, lat_vars, cyc_vars, rsi_vars, ind_vars, ntf_vars>>
    \/ BtSummarize /\ UNCHANGED <<sig_vars, one_vars, lat_vars, cyc_vars, rsi_vars, ind_vars, ntf_vars>>

OneNext ==
    \/ OneBar /\ UNCHANGED <<sig_vars, bt_vars, sum_vars, lat_vars, cyc_vars, rsi_vars, ind_vars, ntf_vars>>
    \/ UiOneBar /\ UNCHANGED <<sig_vars, bt_vars, sum_vars, lat_vars, cyc_vars, rsi_vars, ind_vars, ntf_vars>>

LatNext ==
    \/ LatestSignal /\ UNCHANGED <<sig_vars, bt_vars, sum_vars, one_vars, cyc_vars, rsi_vars, ind_vars, ntf_vars>>
    \/ UiLatestSignal /\ UNCHANGED <<sig_vars, bt_vars, sum_vars, one_vars, cyc_vars, rsi_vars, ind_vars, ntf_vars>>

UiSigNext ==
    \/ UiSigShort /\ UNCHANGED <<bt_vars, sum_vars, one_vars, lat_vars, cyc_vars, rsi_vars, ind_vars, ntf_vars>>
    \/ UiSigEnter /\ UNCHANGED <<bt_vars, sum_vars, one_vars, lat_vars, cyc_vars, rsi_vars, ind_vars, ntf_vars>>
    \/ UiSigBar /\ UNCHANGED <<bt_vars, sum_vars, one_vars, lat_vars, cyc_vars, rsi_vars, ind_vars, ntf_vars>>
    \/ UiSigReturn /\ UNCHANGED <<bt_vars, sum_vars, one_vars, lat_vars, cyc_vars, rsi_vars, ind_vars, ntf_vars>>

RsiNext ==
    \/ ComputeRsi /\ UNCHANGED <<sig_vars, bt_vars, sum_vars, one_vars, lat_vars, cyc_vars, ind_vars, ntf_vars>>

IndNext ==
    \/ ComputeIndicators /\ UNCHANGED <<sig_vars, bt_vars, sum_vars, one_vars, lat_vars, cyc_vars, rsi_vars, ntf_vars>>

NtfNext ==
    \/ RefreshNoData /\ UNCHANGED <<sig_vars, bt_vars, sum_vars, one_vars, lat_vars, cyc_vars, rsi_vars, ind_vars>>
    \/ RefreshData /\ UNCHANGED <<sig_vars, bt_vars, sum_vars, one_vars, lat_vars, cyc_vars, rsi_vars, ind_vars>>

CycNext ==
    \/ SigShort /\ UNCHANGED <<bt_vars, sum_vars, one_vars, lat_vars, cyc_vars, rsi_vars, ind_vars, ntf_vars>>
    \/ SigEnter /\ UNCHANGED <<bt_vars, sum_vars, one_vars, lat_vars, cyc_vars, rsi_vars, ind_vars, ntf_vars>>
    \/ SigBar /\ UNCHANGED <<bt_vars, sum_vars, one_vars, lat_vars, cyc_vars, rsi_vars, ind_vars, ntf_vars>>
    \/ SigReturn /\ UNCHANGED <<bt_vars, sum_vars, one_vars, lat_vars, cyc_vars, rsi_vars, ind_vars, ntf_vars>>
    \/ CycBacktest /\ UNCHANGED <<one_vars, lat_vars, rsi_vars, ind_vars, ntf_vars>>
    \/ BtEmpty /\ UNCHANGED <<sig_vars, sum_vars, one_vars, lat_vars, cyc_vars, rsi_vars, ind_vars, ntf_vars>>
    \/ BtEnter /\ UNCHANGED <<sig_vars, sum_vars, one_vars, lat_vars, cyc_vars, rsi_vars, ind_vars, ntf_vars>>
    \/ BtEntry /\ UNCHANGED <<sig_vars, sum_vars, one_vars, lat_vars, cyc_vars, rsi_vars, ind_vars, ntf_vars>>
    \/ BtExitSignal /\ UNCHANGED <<sig_vars, sum_vars, one_vars, lat_vars, cyc_vars, rsi_vars, ind_vars, ntf_vars>>
    \/ BtTimeStop /\ UNCHANGED <<sig_vars, sum_vars, one_vars, lat_vars, cyc_vars, rsi_vars, ind_vars, ntf_vars>>
    \/ BtSkip /\ UNCHANGED <<sig_vars, sum_vars, one_vars, lat_vars, cyc_vars, rsi_vars, ind_vars, ntf_vars>>
    \/ BtEndClose /\ UNCHANGED <<sig_vars, sum_vars, one_vars, lat_vars, cyc_vars, rsi_vars, ind_vars, ntf_vars>>
    \/ BtEndFlat /\ UNCHANGED <<sig_vars, sum_vars, one_vars, lat_vars, cyc_vars, rsi_vars, ind_vars, ntf_vars>>
    \/ BtSummarize /\ cyc_phase = "backtest"
          /\ UNCHANGED <<sig_vars, one_vars, lat_vars, cyc_vars, rsi_vars, ind_vars, ntf_vars>>
    \/ CycRefresh /\ UNCHANGED <<one_vars, lat_vars, rsi_vars, ind_vars, ntf_vars>>

\* One call of compute_signals on any bounded frame sequence.
SpecSignals == SigInit /\ [][SigNext]_vars

\* One call of the compute_signals of ui.py on any bounded frame sequence.
SpecUiSignals == UiSigInit /\ [][UiSigNext]_vars

\* One call of compute_rsi on any bounded close series.
SpecRsi == RsiInit /\ [][RsiNext]_vars

\* One call of compute_indicators on candle sequences up to the ma200 warm-up.
SpecIndicators == IndInit /\ [][IndNext]_vars

\* The refreshes of one key, each with the latest signal and the mail
\* environment it finds.
SpecNotify == NtfInit /\ [][NtfNext]_vars

\* One call of compute_backtest_trades on any bounded bar sequence.
SpecBacktest == BtInit /\ [][BtNext]_vars

\* One pass of the compute_signals loop body, of signals.py and of ui.py, on any
\* candle pair and any running last_sig.
SpecOneBar == OneInit /\ [][OneNext]_vars

\* Three refreshes of the app, each calling compute_signals, then
\* compute_backtest_trades and summarize_backtest on what it returned.
SpecCycles == CycInit /\ [][CycNext]_vars

\* One call of latest_signal, of signals.py and of ui.py, on any bounded
\* record sequence.
SpecLatest == LatInit /\ [][LatNext]_vars


\* ================================================================ claims
\* The raw decisions of a frame sequence, read off the frames alone.
RawSig(d, b) == RawAt(d, b)[1]

\* The last actionable raw decision among bars 1 .. b-1, "NO DATA" when none.
RECURSIVE LastActionableRaw(_, _)
LastActionableRaw(d, b) ==
    IF b <= 1 THEN "NO DATA"
    ELSE IF RawSig(d, b - 1) \in ACTIONABLE THEN RawSig(d, b - 1)
    ELSE LastActionableRaw(d, b - 1)

\* C1: in what compute_signals builds and returns, records i and i+1 are never
\* both the same member of {BUY, STRONG BUY, SELL, STRONG SELL}, and a bar whose
\* raw decision repeats the last actionable raw decision is displayed as HOLD.
C1_NoRepeat ==
    /\ \A k \in 1..(Len(signals) - 1) :
          ~(signals[k] \in ACTIONABLE /\ signals[k + 1] = signals[k])
    /\ \A k \in 1..(Len(sig_ret) - 1) :
          ~(sig_ret[k].signal \in ACTIONABLE /\ sig_ret[k + 1].signal = sig_ret[k].signal)
    /\ \A b \in 1..(Len(signals) - 1) :
          (RawSig(sig_df, b) \in ACTIONABLE
             /\ RawSig(sig_df, b) = LastActionableRaw(sig_df, b))
          => signals[b + 1] = "HOLD"

\* A finished run in which two consecutive bars had the same actionable raw
\* decision: the first is displayed, the second is HOLD.
C1_Witness ==
    /\ sig_pc = "done"
    /\ \E b \in 1..(Len(sig_df) - 2) :
          /\ RawSig(sig_df, b) \in ACTIONABLE
          /\ RawSig(sig_df, b + 1) = RawSig(sig_df, b)
          /\ sig_ret[b + 1].signal = RawSig(sig_df, b)
          /\ sig_ret[b + 2].signal = "HOLD"

\* C2 as stated: record k-1 (signal and reason) of compute_signals on the first
\* k frames equals record k-1 of the run on all N frames.
C2_CausalityWithReason ==
    sig_pc = "done" =>
        \A k \in 1..Len(sig_df) :
            compute_signals(SubSeq(sig_df, 1, k))[k] = sig_ret[k]

\* C2 amended: the signal of record k-1 is the same for every prefix length k,
\* and so is the reason for k >= 2 (and for k = 1 = N).
C2_Causality ==
    sig_pc = "done" =>
        \A k \in 1..Len(sig_df) :
            LET pre == compute_signals(SubSeq(sig_df, 1, k))[k]
            IN /\ pre.signal = sig_ret[k].signal
               /\ (k >= 2 \/ Len(sig_df) = 1) => pre.signal_reason = sig_ret[k].signal_reason

\* A finished run whose bar 1 displays an actionable signal and has two more
\* bars after it, the last with another raw decision.
C2_Witness ==
    /\ sig_pc = "done"
    /\ Len(sig_df) >= 4
    /\ sig_ret[2].signal \in ACTIONABLE
    /\ RawSig(sig_df, 3) \in ACTIONABLE
    /\ RawSig(sig_df, 3) # RawSig(sig_df, 1)

LastRow == rows[Len(rows)]

\* Bar i is being decided by the loop.
AtBar == pc = "loop" /\ i < Len(df)

\* C4: the trades do not overlap: exit_time of trade k is not later than
\* entry_time of trade k+1, and a position that is open was entered no earlier
\* than every recorded trade ended (one position at a time).
C4_NonOverlap ==
    /\ \A k \in 1..(Len(rows) - 1) : rows[k].exit_time <= rows[k + 1].entry_time
    /\ (pc = "loop" /\ in_pos) => \A k \in 1..Len(rows) : rows[k].exit_time <= entry_idx

\* A finished run with two trades, the first closed by the time-stop and the
\* second entered on a later bar.
C4_Witness ==
    /\ pc = "done"
    /\ Len(rows) >= 2
    /\ rows[1].exit_signal = "TIME_STOP"
    /\ rows[2].entry_time > rows[1].exit_time

\* C5 as stated: every trade has entry_time strictly before exit_time, that is
\* hold_bars >= 1.
C5_EntryBeforeExit ==
    \A k \in 1..Len(rows) :
        rows[k].entry_time < rows[k].exit_time /\ rows[k].hold_bars >= 1

\* C6: a BUY / STRONG BUY bar met while a position is open leaves entry_price,
\* entry_idx, entry_pos, entry_sig and entry_atr as they are and opens nothing:
\* the only row such a bar can add is the open position's own time-stop; and
\* every trade reports the close and the signal of the bar that opened it.
C6_NoReentry ==
    /\ [][(AtBar /\ in_pos /\ df[i + 1].signal \in BUY_SIGNALS) =>
            /\ UNCHANGED <<entry_price, entry_idx, entry_pos, entry_sig, entry_atr>>
            /\ \/ rows' = rows /\ in_pos'
               \/ /\ ~in_pos'
                  /\ Len(rows') = Len(rows) + 1
                  /\ SubSeq(rows', 1, Len(rows)) = rows
                  /\ rows'[Len(rows')].exit_signal = "TIME_STOP"
                  /\ rows'[Len(rows')].entry_time = entry_idx
                  /\ rows'[Len(rows')].entry_price = entry_price
                  /\ rows'[Len(rows')].signal = entry_sig]_vars
    /\ [](\A k \in 1..Len(rows) :
            /\ rows[k].entry_price = df[rows[k].entry_time + 1].close
            /\ rows[k].signal = df[rows[k].entry_time + 1].signal)

\* A finished run whose one trade was opened by BUY at bar 0 and stayed open
\* over a STRONG BUY bar with another close.
C6_Witness ==
    /\ pc = "done"
    /\ Len(df) = 3
    /\ Len(rows) = 1
    /\ df[1].signal = "BUY"
    /\ df[2].signal = "STRONG BUY"
    /\ df[2].close # df[1].close
    /\ rows[1].entry_time = 0
    /\ rows[1].exit_time = 2
    /\ rows[1].signal = "BUY"
    /\ rows[1].entry_price = df[1].close

\* C7: a position is opened only by a BUY / STRONG BUY bar while flat, at that
\* bar's close; a SELL / STRONG SELL bar while flat changes nothing but the loop
\* index; every trade's entry signal is BUY or STRONG BUY.
C7_LongOnly ==
    /\ [][(~in_pos /\ in_pos') =>
            /\ AtBar
            /\ df[i + 1].signal \in BUY_SIGNALS
            /\ entry_price' = df[i + 1].close
            /\ entry_pos' = i
            /\ entry_sig' = df[i + 1].signal
            /\ rows' = rows]_vars
    /\ [][(AtBar /\ ~in_pos /\ df[i + 1].signal \in SELL_SIGNALS) =>
            UNCHANGED <<in_pos, entry_price, entry_idx, entry_pos, entry_sig,
                        entry_atr, rows>>]_vars
    /\ [](\A k \in 1..Len(rows) : rows[k].signal \in BUY_SIGNALS)

\* A finished run that met a SELL while flat at bar 0, then entered on a BUY.
C7_Witness ==
    /\ pc = "done"
    /\ Len(df) = 3
    /\ Len(rows) = 1
    /\ df[1].signal \in SELL_SIGNALS
    /\ df[2].signal = "BUY"
    /\ rows[1].entry_time = 1
    /\ rows[1].signal = "BUY"

\* C8: a SELL / STRONG SELL bar met while a position is open closes it on that
\* bar, at that bar's close, with that signal as exit_signal, also when the
\* position's age has reached max_hold_bars.
C8_ReverseSignalFirst ==
    [][(AtBar /\ in_pos /\ df[i + 1].signal \in SELL_SIGNALS) =>
          /\ ~in_pos'
          /\ Len(rows') = Len(rows) + 1
          /\ SubSeq(rows', 1, Len(rows)) = rows
          /\ rows'[Len(rows')].exit_signal = df[i + 1].signal
          /\ rows'[Len(rows')].exit_time = idx(df, i)
          /\ rows'[Len(rows')].exit_price = df[i + 1].close
          /\ rows'[Len(rows')].entry_time = entry_idx
          /\ rows'[Len(rows')].hold_bars = i - entry_pos]_vars

\* A finished run with a trade closed by a reverse signal at an age that had
\* reached max_hold_bars.
C8_Witness ==
    /\ pc = "done"
    /\ max_hold_bars >= 1
    /\ \E k \in 1..Len(rows) :
          /\ rows[k].exit_signal \in SELL_SIGNALS
          /\ rows[k].hold_bars >= max_hold_bars

\* C9: with max_hold_bars >= 1, a position that meets no SELL / STRONG SELL is
\* closed at the first bar whose age is >= max_hold_bars, at that bar's close,
\* with exit_signal TIME_STOP; no open position is older than max_hold_bars and
\* a TIME_STOP trade has hold_bars = max_hold_bars.
C9_TimeStop ==
    /\ [](max_hold_bars >= 1 =>
            /\ (AtBar /\ in_pos) => i - entry_pos <= max_hold_bars
            /\ \A k \in 1..Len(rows) :
                  rows[k].exit_signal = "TIME_STOP" =>
                      /\ rows[k].hold_bars = max_hold_bars
                      /\ rows[k].exit_time = rows[k].entry_time + max_hold_bars
                      /\ rows[k].exit_price = df[rows[k].exit_time + 1].close)
    /\ [][(AtBar /\ in_pos /\ max_hold_bars >= 1 /\ i - entry_pos >= max_hold_bars
             /\ df[i + 1].signal \notin SELL_SIGNALS) =>
            /\ ~in_pos'
            /\ Len(rows') = Len(rows) + 1
            /\ rows'[Len(rows')].exit_signal = "TIME_STOP"
            /\ rows'[Len(rows')].exit_time = idx(df, i)
            /\ rows'[Len(rows')].exit_price = df[i + 1].close]_vars
    /\ [][(AtBar /\ in_pos /\ i - entry_pos < max_hold_bars
             /\ df[i + 1].signal \notin SELL_SIGNALS) =>
            (in_pos' /\ rows' = rows)]_vars

\* A finished run with a TIME_STOP trade held for max_hold_bars = 2 bars.
C9_Witness ==
    /\ pc = "done"
    /\ max_hold_bars = 2
    /\ Len(rows) = 1
    /\ rows[1].exit_signal = "TIME_STOP"
    /\ rows[1].hold_bars = 2

\* What C10 says of a position still open after the last bar, for exit label x:
\* one more row, the last, closes it at the last close with exit_signal x, no
\* other row carries x, and a run that ends flat has no such row.
EndOfDataRow(x) ==
    pc = "done" =>
        /\ in_pos =>
              /\ Len(rows) >= 1
              /\ LastRow.exit_signal = x
              /\ LastRow.exit_price = df[Len(df)].close
              /\ LastRow.exit_time = idx(df, Len(df) - 1)
              /\ LastRow.entry_time = entry_idx
              /\ LastRow.entry_price = entry_price
              /\ \A k \in 1..(Len(rows) - 1) : rows[k].exit_signal # x
        /\ ~in_pos => \A k \in 1..Len(rows) : rows[k].exit_signal # x

\* C10 as stated: the exit reason of that trade is END_OF_DATA.
C10_EndOfData == EndOfDataRow("END_OF_DATA")

\* C10 amended: the exit_signal of that trade is END.
C10_End == EndOfDataRow("END")

\* A finished run whose position, entered at bar 0, was still open after the
\* last bar and was closed there at another close.
C10_Witness ==
    /\ pc = "done"
    /\ in_pos
    /\ Len(df) = 3
    /\ Len(rows) = 1
    /\ rows[1].exit_signal = "END"
    /\ rows[1].hold_bars = 2
    /\ rows[1].exit_price = df[3].close
    /\ rows[1].exit_price # rows[1].entry_price

\* The input is scenario C with the BUY on bar b and the SELL on bar x, each
\* with its close: no other bar carries an actionable signal and the time-stop
\* cannot fire in between.
ScenarioC(b, x) ==
    /\ HasColumn(df, "signal")
    /\ HasColumn(df, "close")
    /\ b < x
    /\ df[b + 1].signal = "BUY"
    /\ df[x + 1].signal = "SELL"
    /\ \A k \in 0..(Len(df) - 1) : k \notin {b, x} => df[k + 1].signal \notin ACTIONABLE
    /\ x - b < max_hold_bars

\* tp_level of a position opened on bar b, times 1000, from the bar's close and
\* atr14 alone.
TpOfBar1000(b) ==
    LET p == df[b + 1].close
        a == IF "atr14" \in DOMAIN df[b + 1] THEN df[b + 1].atr14 ELSE NaN
    IN  p * 1000 + (IF a = 0 \/ isna(a) THEN p * 2 ELSE a * 200) * 12

\* Some close of bars lo..hi is at or above the tp_level of the entry on bar b.
CloseReachedTp(b, lo, hi) ==
    \E k \in lo..hi : df[k + 1].close * 1000 >= TpOfBar1000(b)

\* The one row of scenario C but for its return.
ScenarioCRow(b, x) ==
    /\ Len(rows) = 1
    /\ rows[1].entry_price = df[b + 1].close
    /\ rows[1].exit_price = df[x + 1].close
    /\ rows[1].hold_bars = x - b
    /\ rows[1].correct = (rows[1].ret_pct[1] > 0)

RiskOfBar100(b) ==
    LET p == df[b + 1].close
        a == IF "atr14" \in DOMAIN df[b + 1] THEN df[b + 1].atr14 ELSE NaN
    IN  IF a = 0 \/ isna(a) THEN p * 2 ELSE a * 200

\* Row r reports the profit `profit2000` (times 2000) of a position opened on
\* bar b: as ret_pct = profit / entry * 100 and as r_multiple = profit / risk.
ReportsProfit(r, b, profit2000) ==
    /\ r.ret_pct[1] * df[b + 1].close * 20 = profit2000 * r.ret_pct[2]
    /\ r.r_multiple[1] * RiskOfBar100(b) * 20 = profit2000 * r.r_multiple[2]

\* The profit of row r, times 2000, when `reached` says whether tp_level was reached.
ProfitOf2000(r, reached) ==
    IF reached
    THEN (TpOfBar1000(r.entry_time) - r.entry_price * 1000)
            + (r.exit_price - r.entry_price) * 1000
    ELSE (r.exit_price - r.entry_price) * 2000

\* C12 as stated: every trade's profit is the blend 0.5*(tp_level - entry) +
\* 0.5*(exit - entry) when a close reached tp_level on a bar before the exit bar
\* and the plain exit - entry when none did, and r_multiple is profit / risk.
C12_TpBeforeExit ==
    \A k \in 1..Len(rows) :
        ReportsProfit(rows[k], rows[k].entry_time,
                      ProfitOf2000(rows[k], CloseReachedTp(rows[k].entry_time,
                                                           rows[k].entry_time,
                                                           rows[k].exit_time - 1)))

\* C12 amended: the blend applies when a close reached tp_level on some bar from
\* the entry bar to the exit bar, the exit bar included.
C12_TpThroughExit ==
    \A k \in 1..Len(rows) :
        ReportsProfit(rows[k], rows[k].entry_time,
                      ProfitOf2000(rows[k], CloseReachedTp(rows[k].entry_time,
                                                           rows[k].entry_time,
                                                           rows[k].exit_time)))

\* A trade whose exit bar is the first bar to close at tp_level or above.
C12_Witness ==
    \E k \in 1..Len(rows) :
        /\ CloseReachedTp(rows[k].entry_time, rows[k].exit_time, rows[k].exit_time)
        /\ ~CloseReachedTp(rows[k].entry_time, rows[k].entry_time, rows[k].exit_time - 1)
        /\ rows[k].hold_bars >= 2

\* The regime gate does not let the candle through: ma200 is undefined or the
\* close is below it.
RegimeGateFails(last) == isna(last.ma200) \/ Lt(last.close, last.ma200)

\* The two HOLD reasons of the regime gate, of signals.py and of ui.py.
RegimeReasons ==
    {"MA200 nicht verfuegbar - zu wenig Historie fuer Trendfilter.",
     "Preis unter MA200 - System handelt nur Long im Bullenmarkt.",
     "MA200 nicht verfuegbar - kein Regime.",
     "Unter MA200 - kein Long-Regime."}

\* C13: on a bar where ma200 is undefined or close < ma200 the raw decision is
\* HOLD with the MA200 regime reason, and the bar is displayed as HOLD with
\* that reason and leaves last_sig alone, whatever the other indicator values
\* and whatever last_sig is; in signals.py and in ui.py.
C13_RegimeGate ==
    RegimeGateFails(one_bar.last) =>
        /\ signal_with_reason(one_bar.last, one_bar.prev)[1] = "HOLD"
        /\ signal_with_reason(one_bar.last, one_bar.prev)[2] \in RegimeReasons
        /\ ui_signal_with_reason(one_bar.last, one_bar.prev)[1] = "HOLD"
        /\ ui_signal_with_reason(one_bar.last, one_bar.prev)[2] \in RegimeReasons
        /\ \A out \in {one_out, ui_out} :
              \A k \in 1..Len(out) :
                  /\ out[k].signal = "HOLD"
                  /\ out[k].reason \in RegimeReasons
                  /\ out[k].last_sig = one_bar.last_sig

\* A candle below its ma200 that has every condition of the deep dip, displayed
\* by both variants while last_sig is SELL.
C13_Witness ==
    /\ Lt(one_bar.last.close, one_bar.last.ma200)
    /\ deep_dip(one_bar.last, one_bar.prev)
    /\ one_bar.last_sig = "SELL"
    /\ Len(one_out) = 1
    /\ Len(ui_out) = 1
    /\ one_out[1].signal = "HOLD"

\* The input of scenario A: the close of every frame is below its ma200.
ScenarioA == \A k \in 1..Len(sig_df) : Lt(sig_df[k].close, sig_df[k].ma200)

\* C14 as stated: when the close is below ma200 on every bar, every record
\* compute_signals returns is HOLD with a reason citing the MA200 regime filter.
C14_AllHold ==
    (sig_pc = "done" /\ ScenarioA) =>
        \A k \in 1..Len(sig_ret) :
            /\ sig_ret[k].signal = "HOLD"
            /\ sig_ret[k].signal_reason \in RegimeReasons

\* C14 amended: every record but the first is HOLD with the reason of the
\* close < ma200 test; the first record, which has no candle before it, is NO DATA.
C14_HoldAfterFirst ==
    (sig_pc = "done" /\ ScenarioA) =>
        /\ Len(sig_ret) = Len(sig_df)
        /\ \A k \in 2..Len(sig_ret) :
              /\ sig_ret[k].signal = "HOLD"
              /\ sig_ret[k].signal_reason
                    = "Preis unter MA200 - System handelt nur Long im Bullenmarkt."
        /\ Len(sig_ret) >= 1 =>
              /\ sig_ret[1].signal = "NO DATA"
              /\ sig_ret[1].signal_reason
                    \in {"Erste Kerze - keine Historie.", "Nicht genug Daten."}

\* Scenario A has run on as many frames as the bound allows.
C14_Witness ==
    /\ sig_pc = "done"
    /\ ScenarioA
    /\ Len(sig_df) = MaxFrames
    /\ sig_ret[MaxFrames].signal = "HOLD"

\* The other side of the market from a displayed signal.
OtherSide(s) == IF s \in BUY_SIGNALS THEN SELL_SIGNALS ELSE BUY_SIGNALS

\* C15: after a bar is displayed as BUY or STRONG BUY, every following bar is
\* displayed as HOLD up to the first bar whose raw decision is SELL or STRONG
\* SELL, so no second buy-side signal is displayed before the direction has
\* changed; and the same with the sides exchanged.
C15_DirectionChange ==
    \A a \in 1..(Len(signals) - 1) :
        \A b \in (a + 1)..(Len(signals) - 1) :
            (/\ signals[a + 1] \in ACTIONABLE
             /\ \A c \in (a + 1)..b : RawSig(sig_df, c) \notin OtherSide(signals[a + 1]))
            => signals[b + 1] = "HOLD"

\* The positions of lat_df whose signal is one of the five valid signals.
ValidPositions ==
    {k \in 1..Len(lat_df) :
        lat_df[k].signal \in {"STRONG BUY", "BUY", "HOLD", "SELL", "STRONG SELL"}}

\* C16: latest_signal returns the signal of the last record whose signal is one
\* of STRONG BUY, BUY, HOLD, SELL, STRONG SELL, whatever NO DATA records come
\* after it, and NO DATA when there is no such record, no record at all or no
\* signal field; in signals.py and in ui.py.
C16_LatestSignal ==
    \A out \in {lat_ret, ui_lat_ret} :
        \A n \in 1..Len(out) :
            IF Len(lat_df) = 0 \/ "signal" \notin DOMAIN lat_df[1]
            THEN out[n] = "NO DATA"
            ELSE IF ValidPositions = {}
            THEN out[n] = "NO DATA"
            ELSE \E k \in ValidPositions :
                    /\ \A m \in ValidPositions : m <= k
                    /\ out[n] = lat_df[k].signal

\* latest_signal has returned BUY for a sequence that ends in two NO DATA records.
C16_Witness ==
    /\ Len(lat_df) >= 3
    /\ HasColumn(lat_df, "signal")
    /\ lat_df[Len(lat_df)].signal = "NO DATA"
    /\ lat_df[Len(lat_df) - 1].signal = "NO DATA"
    /\ lat_ret = <<"BUY">>
    /\ ui_lat_ret = <<"BUY">>

\* The frame gives compute_backtest_trades nothing to trade: it is empty, lacks
\* the signal or the close column, or has no BUY / STRONG BUY signal.
NothingToTrade ==
    \/ Len(df) = 0
    \/ "signal" \notin DOMAIN df[1]
    \/ "close" \notin DOMAIN df[1]
    \/ \A k \in 1..Len(df) : df[k].signal \notin {"BUY", "STRONG BUY"}

\* C17: for an empty frame, a frame without a signal or a close column, or a
\* frame with no BUY / STRONG BUY signal, compute_backtest_trades returns an
\* empty trade list; it never raises, and every call that has not returned can
\* take its next step.
C17_EmptyTrades ==
    /\ pc # "raised"
    /\ pc # "done" => ENABLED BtNext
    /\ NothingToTrade => (rows = <<>> /\ ~in_pos)

\* A call has returned no trade for a frame of three bars, one of them a BUY,
\* that has no close column.
C17_Witness ==
    /\ pc = "done"
    /\ Len(df) = 3
    /\ "close" \notin DOMAIN df[1]
    /\ \E k \in 1..3 : df[k].signal = "BUY"
    /\ rows = <<>>

\* The rate and average fields of a summary.
RateFields == {"overall_avg_return", "overall_hit_rate", "overall_avg_r"}

C19_Determinism ==
    /\ \A a, b \in 1..Len(cyc_hist) :
          (/\ cyc_hist[a].frames = cyc_hist[b].frames
           /\ cyc_hist[a].max_hold_bars = cyc_hist[b].max_hold_bars)
          => /\ cyc_hist[a].signals = cyc_hist[b].signals
             /\ cyc_hist[a].trades = cyc_hist[b].trades
    /\ (sig_pc = "loop" /\ sig_i = 0) =>
          (last_sig = "NO DATA" /\ signals = <<>> /\ reasons = <<>>)
    /\ (pc = "loop" /\ i = 0) => (~in_pos /\ rows = <<>>)

\* Three refreshes are over: the first and the third on the same frames with a
\* trade closed by a sell signal, the one in between on other frames, where a
\* BUY was displayed last and the position was still open at the end of data.
C19_Witness ==
    /\ Len(cyc_hist) = 3
    /\ cyc_hist[1].frames = cyc_hist[3].frames
    /\ cyc_hist[2].frames # cyc_hist[1].frames
    /\ Len(cyc_hist[1].trades) = 1
    /\ cyc_hist[1].trades[1].exit_signal = "STRONG SELL"
    /\ Len(cyc_hist[2].trades) = 1
    /\ cyc_hist[2].trades[1].exit_signal = "END"
    /\ cyc_hist[3].trades = cyc_hist[1].trades

\* C20: compute_signals leaves the frame the caller passed as it was: in every
\* state of the call, and after it, the caller's frame is the frame passed in.
\* signals.py copies first; the compute_signals of ui.py assigns the signal and
\* signal_reason columns on the caller's frame (lines 552-554 and 583-584).
C20_InputUnchanged == caller_df = sig_df

\* C21: the summary of a non-empty trade list has an entry max_drawdown_pct next
\* to total_trades, the average return and the hit rate.  summarize_backtest
\* builds the dict of lines 145-150 and adds per_type; no drawdown is computed.
C21_ReportsDrawdown ==
    (Len(stats) = 1 /\ Len(rows) > 0) =>
        /\ "total_trades" \in DOMAIN stats[1]
        /\ "overall_avg_return" \in DOMAIN stats[1]
        /\ "overall_hit_rate" \in DOMAIN stats[1]
        /\ "max_drawdown_pct" \in DOMAIN stats[1]

\* rsi14 is a number between 0 and 100.
RsiInRange(x) == x[2] > 0 /\ 0 <= x[1] /\ x[1] <= 100 * x[2]

\* C22: on every bar that has smoothed averages (every bar but the first), rsi14
\* is a number with 0 <= rsi14 <= 100, and it is 100 whenever avg_down = 0, also
\* when avg_up = 0 as well.  compute_rsi divides roll_up by roll_down as they
\* are: a flat stretch makes 0 / 0 and rsi14 is NaN there.
C22_RsiDefined ==
    \A k \in 1..Len(rsi_ret) : \A b \in 1..(Len(rsi_series) - 1) :
        /\ RsiInRange(rsi_ret[k][b + 1])
        /\ roll_down(rsi_series, b) = 0 =>
              rsi_ret[k][b + 1][1] = 100 * rsi_ret[k][b + 1][2]

\* The close column of a candle sequence that has one.
Closes(d) == [k \in 1..Len(d) |-> d[k].close]

\* C23: in the frames compute_indicators returns for candles with a close,
\* ma200 is undefined on bars 0..198 and defined from bar 199 on, the three
\* Bollinger columns are undefined on bars 0..18 and defined from bar 19 on, and
\* the four values of bar b are those computed from bars 0..b alone.
C23_WarmUp ==
    \A r \in 1..Len(ind_ret) : HasColumn(ind_df, "close") =>
        /\ Len(ind_ret[r]) = Len(ind_df)
        /\ \A b \in 0..(Len(ind_df) - 1) :
              LET f == ind_ret[r][b + 1]
                  pre == IndicatorsAt(SubSeq(Closes(ind_df), 1, b + 1), b)
              IN  /\ undefined(f.ma200) <=> b <= 198
                  /\ undefined(f.bb_mid) <=> b <= 18
                  /\ undefined(f.bb_up) <=> b <= 18
                  /\ undefined(f.bb_lo) <=> b <= 18
                  /\ f.ma200 = pre.ma200
                  /\ f.bb_mid = pre.bb_mid
                  /\ f.bb_up = pre.bb_up
                  /\ f.bb_lo = pre.bb_lo

\* A sequence of moving closes past the warm-up has been given: bar 198 has no
\* ma200, bar 199 has the mean of the 200 closes, bar 19 has bands around it.
C23_Witness ==
    /\ Len(ind_ret) = 1
    /\ Len(ind_df) = 201
    /\ HasColumn(ind_df, "close")
    /\ ind_df[2].close # ind_df[1].close
    /\ undefined(ind_ret[1][199].ma200)
    /\ ind_ret[1][200].ma200 = <<SumOver(Closes(ind_df), 0, 199, FALSE), 200>>
    /\ ind_ret[1][201].ma200 # ind_ret[1][200].ma200
    /\ ind_ret[1][20].bb_up[3] > 0

\* The positions of `sigs` that display an actionable signal.
Displayed(sigs) == {k \in 1..Len(sigs) : sigs[k] \in ACTIONABLE}

\* C24: in the list compute_signals builds, two displayed actionable signals
\* with nothing but HOLD and NO DATA between them are never the same signal.
C24_NoRepeatDisplayed ==
    \A a \in Displayed(signals) : \A b \in Displayed(signals) :
        (a < b /\ \A c \in (a + 1)..(b - 1) : c \notin Displayed(signals))
            => signals[a] # signals[b]

\* The call has returned a signal, a HOLD for its repetition, and another signal
\* after it: the raw decision of bar 2 is the one displayed on bar 1.
C24_Witness ==
    /\ sig_pc = "done"
    /\ Len(sig_ret) = 4
    /\ sig_ret[2].signal \in ACTIONABLE
    /\ sig_ret[3].signal = "HOLD"
    /\ RawSig(sig_df, 2) = sig_ret[2].signal
    /\ sig_ret[4].signal \in ACTIONABLE
    /\ signals = [k \in 1..4 |-> sig_ret[k].signal]

\* C25: the bar that closes a position opens none: each trade exits strictly
\* before the next one is entered, and a position that is open was entered
\* strictly after the last exit, also when the closing bar carries BUY or
\* STRONG BUY under a time-stop.
C25_NoEntryOnExitBar ==
    /\ \A k \in 1..(Len(rows) - 1) : rows[k].exit_time < rows[k + 1].entry_time
    /\ (pc = "loop" /\ in_pos /\ Len(rows) > 0) =>
          rows[Len(rows)].exit_time < entry_idx

\* A time-stop has closed a position on a bar that carries a buy signal, and
\* the next trade was entered on the bar after it.
C25_Witness ==
    /\ pc = "done"
    /\ Len(rows) = 2
    /\ rows[1].exit_signal = "TIME_STOP"
    /\ df[rows[1].exit_time + 1].signal \in BUY_SIGNALS
    /\ rows[2].entry_time = rows[1].exit_time + 1

\* C26: with max_hold_bars >= 1 no position is held for more than
\* max_hold_bars bars: every trade, whatever closed it, has hold_bars =
\* exit bar - entry bar <= max_hold_bars, and an open position is no older than
\* that when the next bar is looked at.
C26_HoldBound ==
    max_hold_bars >= 1 =>
        /\ \A k \in 1..Len(rows) :
              /\ rows[k].hold_bars = rows[k].exit_time - rows[k].entry_time
              /\ rows[k].hold_bars <= max_hold_bars
        /\ (pc = "loop" /\ in_pos) => i - entry_pos <= max_hold_bars

\* With a time-stop of one bar, a reverse signal has closed a trade on the very
\* bar the time-stop was due, and the next trade ran to the end of the data.
C26_Witness ==
    /\ pc = "done"
    /\ max_hold_bars = 1
    /\ Len(rows) = 2
    /\ rows[1].exit_signal \in SELL_SIGNALS
    /\ rows[1].hold_bars = max_hold_bars
    /\ rows[2].exit_signal = "END"

\* The rules of the decision list in the order the specification gives them,
\* and the signal each stands for.
RuleOrder == <<"gate", "blowoff", "deep_dip", "pullback", "strong_sell", "sell">>

RuleSignal ==
    [gate |-> "HOLD", blowoff |-> "STRONG SELL", deep_dip |-> "STRONG BUY",
     pullback |-> "BUY", strong_sell |-> "STRONG SELL", sell |-> "SELL",
     none |-> "HOLD"]

RuleHolds(rule, last, prev) ==
    CASE rule = "gate" -> RegimeGateFails(last)
      [] rule = "blowoff" -> blowoff(last, prev)
      [] rule = "deep_dip" -> deep_dip(last, prev)
      [] rule = "pullback" -> buy_price_cond(last) /\ buy_rsi_cond(last, prev)
      [] rule = "strong_sell" -> strong_sell_cond(last, prev)
      [] rule = "sell" -> sell_cond(last, prev)

FirstRule(last, prev) ==
    LET hits == {k \in 1..Len(RuleOrder) : RuleHolds(RuleOrder[k], last, prev)}
    IN  IF hits = {} THEN "none"
        ELSE RuleOrder[CHOOSE k \in hits : \A m \in hits : k <= m]

\* The regime gate of ui.py: ma200, then adx14, rvol20 and atr14 / close.
UiGateFails(last) ==
    \/ RegimeGateFails(last)
    \/ Lt(Get(last, "adx14"), 20)
    \/ Lt(Get(last, "rvol20"), 90)
    \/ atr_pct_high(last)

\* C27: the raw decision of a candle is the signal of the first rule that
\* holds, in the order regime gate, blow-off-top, deep dip, pullback, extreme
\* overheat, overheat, and HOLD when none holds; the bar displays it or HOLD.  A
\* candle past the gate with the deep dip and the pullback is STRONG BUY, one
\* with the extreme overheat and the overheat is STRONG SELL, in ui.py too.
C27_FirstRuleWins ==
    LET last == one_bar.last
        prev == one_bar.prev
        raw == signal_with_reason(last, prev)
        uiraw == ui_signal_with_reason(last, prev)
    IN  /\ raw[1] = RuleSignal[FirstRule(last, prev)]
        /\ \A k \in 1..Len(one_out) : one_out[k].signal \in {raw[1], "HOLD"}
        /\ (~RegimeGateFails(last) /\ ~blowoff(last, prev) /\ deep_dip(last, prev)
              /\ buy_price_cond(last) /\ buy_rsi_cond(last, prev))
             => raw[1] = "STRONG BUY"
        /\ (~RegimeGateFails(last) /\ strong_sell_cond(last, prev) /\ sell_cond(last, prev))
             => raw[1] = "STRONG SELL"
        /\ (~UiGateFails(last) /\ strong_overheat(last, prev) /\ overheat(last, prev))
             => uiraw[1] = "STRONG SELL"

\* A candle past the gate at its lower band with rsi14 between 30 and 35 and
\* rising has both buy rules, and was displayed as STRONG BUY after a BUY.
C27_Witness ==
    /\ ~RegimeGateFails(one_bar.last)
    /\ deep_dip(one_bar.last, one_bar.prev)
    /\ buy_price_cond(one_bar.last)
    /\ buy_rsi_cond(one_bar.last, one_bar.prev)
    /\ one_bar.last_sig = "BUY"
    /\ Len(one_out) = 1
    /\ one_out[1].signal = "STRONG BUY"
    /\ Len(ui_out) = 1

\* low <= open, close <= high
WellFormed(c) ==
    /\ c.low <= c.open /\ c.open <= c.high
    /\ c.low <= c.close /\ c.close <= c.high

BreakoutReason ==
    "Trend-Breakout: Ueber MA200/EMA20/EMA50 mit neuem Hoch, RSI 50-65 steigend und Volumen-Expansion."

\* The breakout as the specification words it: the close is a new high over the
\* bar before and above ema20, rsi14 is in [50, 65] and not lower than before,
\* rvol20 is at least 1.05 or undefined; in an up-trend past the regime gate
\* and with the trend-dip, the one rule before it, not holding.
BreakoutSetup(last, prev) ==
    /\ WellFormed(last)
    /\ ~UiGateFails(last)
    /\ trend_ok(last)
    /\ ~(dip_zone(last) /\ dip_rsi(last, prev))
    /\ Gt(last.close, prev.high)
    /\ Gt(last.close, last.ema20)
    /\ breakout_rsi(last, prev)
    /\ breakout_vol(last)

\* C28: the breakout rule fires on well-formed candles: a candle with the
\* breakout setup gets the raw decision BUY with the breakout reason.  In ui.py
\* recent_high = max(prev high, last high) takes in the candle's own high, and
\* close > recent_high never holds for close <= high.
C28_BreakoutFires ==
    BreakoutSetup(one_bar.last, one_bar.prev) =>
        ui_signal_with_reason(one_bar.last, one_bar.prev) = <<"BUY", BreakoutReason>>

\* C29: compute_signals returns one record per frame; the record of bar b is
\* NO DATA exactly when b = 0 or there are fewer than two frames, every other
\* record is HOLD or one of the four signals, and for two frames or more
\* latest_signal of the returned frame is the signal displayed on the last bar.
C29_OneRecordPerFrame ==
    sig_pc = "done" =>
        /\ Len(sig_ret) = Len(sig_df)
        /\ \A k \in 1..Len(sig_ret) :
              /\ sig_ret[k].signal = "NO DATA" <=> (k = 1 \/ Len(sig_df) < 2)
              /\ sig_ret[k].signal \in ALL_SIGNALS
        /\ Len(sig_df) >= 2 =>
              /\ latest_signal(ReturnedFrame(sig_df, sig_ret)) = sig_ret[Len(sig_ret)].signal
              /\ latest_signal(ReturnedFrame(sig_df, sig_ret)) # "NO DATA"

\* The call has returned four records, a BUY on bar 1 and HOLD on the last
\* bar: the latest signal is HOLD, not the BUY before it.
C29_Witness ==
    /\ sig_pc = "done"
    /\ Len(sig_ret) = 4
    /\ sig_ret[2].signal = "BUY"
    /\ sig_ret[4].signal = "HOLD"
    /\ latest_signal(ReturnedFrame(sig_df, sig_ret)) = "HOLD"

\* What the refreshes up to the n-th did about the e-mail: send_signal_email
\* is called exactly when the latest signal is actionable and is not the stored
\* one, and the signal is stored whether or not the e-mail went out.
SendRule(n) ==
    LET c == ntf_log[n]
    IN  /\ c.called <=> (c.data /\ c.sig \in ACTIONABLE /\ c.prev_sig # <<c.sig>>)
        /\ c.ok => c.called
        /\ c.data => c.stored = <<c.sig>>
        /\ n > 1 => c.prev_sig = ntf_log[n - 1].stored

\* Two refreshes in a row with the same latest signal call send_signal_email at
\* most once, also when the first call failed.
NoRetry(n) ==
    (n > 1 /\ ntf_log[n].data /\ ntf_log[n - 1].data /\ ntf_log[n].sig = ntf_log[n - 1].sig)
        => ~ntf_log[n].called

====
